---------------------------- MODULE Spec2Model ----------------------------
(***************************************************************************)
(* GoScript: scanner (lexer.go), Pratt parser (analyzer, parser.go) and    *)
(* the two tree-walking evaluators (Environment/Evaluate and Scope/Eval).  *)
(*                                                                         *)
(* Source text is a sequence of one-character strings.  A Lexeme is        *)
(* [Kind, Text] with Text a sequence of characters.                        *)
(***************************************************************************)
EXTENDS Integers, Sequences, FiniteSets, TLC

VARIABLES
    src,        \* the script text read by main
    scanner,    \* the scanTokens goroutine: "idle", "run", "closed" or "fatal"
    lexemes,    \* what scanTokens has sent on the lexeme channel
    rdr,        \* the index of the next rune scanTokens reads, 0 before it runs
    parser,     \* the processParsing goroutine: "idle", "run", "spin" or "closed"
    pos,        \* how many lexemes the analyzer has read into curLex
    astNodes,   \* what processParsing has sent on the node channel
    spins,      \* iterations of a parser loop made after END_OF_FILE was reached
    evaluated,  \* how many nodes the evaluator has received
    impl,       \* "A": Environment/Evaluate, "B": Scope/Eval
    input,      \* the values the script was built from
    store,      \* scopes and heap of the evaluator
    pre,        \* the store before the last node was evaluated
    result,     \* the outcome of the last evaluation
    status      \* the run: "idle", "run", "done", "panic", "fatal", "loop", "overflow"

vars == <<src, scanner, lexemes, parser, pos, astNodes, spins, evaluated,
          rdr, impl, input, store, pre, result, status>>

-----------------------------------------------------------------------------
(* Token kinds, lexer.go:23-69 *)

END_OF_FILE == "EOF"
OPEN_PAREN == "("
CLOSE_PAREN == ")"
OPEN_CURLY == "{"
CLOSE_CURLY == "}"
OPEN_BRACKET == "["
CLOSE_BRACKET == "]"
COMMA_SYM == ","
PLUS_SYM == "+"
MINUS_SYM == "-"
MULTIPLY_SYM == "*"
DIVIDE_SYM == "/"
COLON_SYM == ":"
EXCLAMATION == "!"
ASSIGN == "="
EQ_OP == "=="
NEQ_OP == "!="
GREATER_THAN == ">"
LESS_THAN == "<"
GREATER_EQ == ">="
LESS_EQ == "<="
STRING_T == "STRING"
INTEGER_T == "INT"
FLOAT_T == "FLOAT"
IDENTIFIER == "IDENT"
TRUE_T == "TRUE"
FALSE_T == "FALSE"
IF_T == "IF"
ELSE_T == "ELSE"
FUNCTION_T == "FN"
PRINT_T == "PRINT"
PRINTLN_T == "PRINTLN"
RETURN_T == "RETURN"
FOR_T == "FOR"
DOTDOT_SYM == ".."
SWAP_T == "SWAP"
INPUT_T == "INPUT"
LENGTH_T == "LEN"
IMPORT_T == "IMPORT"
OR_T == "OR"
AND_T == "AND"

Lexeme(kind, text) == [Kind |-> kind, Text |-> text]

(* reservedWords, lexer.go:71-87 *)
reservedWords(text) ==
    CASE text = <<"f","n">> -> FUNCTION_T
      [] text = <<"p","r","i","n","t">> -> PRINT_T
      [] text = <<"p","r","i","n","t","l","n">> -> PRINTLN_T
      [] text = <<"r","e","t","u","r","n">> -> RETURN_T
      [] text = <<"t","r","u","e">> -> TRUE_T
      [] text = <<"f","a","l","s","e">> -> FALSE_T
      [] text = <<"i","f">> -> IF_T
      [] text = <<"e","l","s","e">> -> ELSE_T
      [] text = <<"f","o","r">> -> FOR_T
      [] text = <<"s","w","a","p">> -> SWAP_T
      [] text = <<"i","n","p","u","t">> -> INPUT_T
      [] text = <<"l","e","n">> -> LENGTH_T
      [] text = <<"i","m","p","o","r","t">> -> IMPORT_T
      [] text = <<"o","r">> -> OR_T
      [] text = <<"a","n","d">> -> AND_T
      [] OTHER -> IDENTIFIER

(* symbolMap, lexer.go:89-113: the one-character and two-character symbols *)
singleSymbols ==
    {"(", ")", "{", "}", "[", "]", ",", ".", "+", "-", "*", "/", ":", "!",
     "?", "=", ">", "<"}

doubleSymbols == {<<"=","=">>, <<"!","=">>, <<">","=">>, <<"<","=">>, <<".",".">>}

doubleKind(d) ==
    CASE d = <<"=","=">> -> EQ_OP
      [] d = <<"!","=">> -> NEQ_OP
      [] d = <<">","=">> -> GREATER_EQ
      [] d = <<"<","=">> -> LESS_EQ
      [] d = <<".",".">> -> DOTDOT_SYM

Digits == <<"0","1","2","3","4","5","6","7","8","9">>

(* unicode.IsDigit / unicode.IsLetter on the characters scripts are written in *)
IsDigit(c) == \E i \in 1..10 : Digits[i] = c

IsLetter(c) ==
    c \in {"a","b","c","d","e","f","g","h","i","j","k","l","m","n","o","p",
           "q","r","s","t","u","v","w","x","y","z"}

-----------------------------------------------------------------------------
(* The scanner, lexer.go.  Each scanX returns what it sent, the reader      *)
(* position it leaves (index of the next rune to read) and whether it       *)
(* ended the process with log.Fatal.                                        *)

Scanned(sent, next, fatal) == [sent |-> sent, next |-> next, fatal |-> fatal]

(* strings.NewReplacer(`\n`, "\n", `\t`, "\t", `\r`, "\r").Replace, lexer.go:116 *)
RECURSIVE Replacer(_, _)
Replacer(s, i) ==
    IF i > Len(s) THEN <<>>
    ELSE IF s[i] = "\\" /\ i < Len(s) /\ s[i+1] \in {"n", "t", "r"}
         THEN <<(CASE s[i+1] = "n" -> "\n" [] s[i+1] = "t" -> "\t" [] OTHER -> "\r")>>
                \o Replacer(s, i + 2)
         ELSE <<s[i]>> \o Replacer(s, i + 1)

(* strings.ReplaceAll(builder.String(), `\"`, `"`), lexer.go:185 *)
RECURSIVE ReplaceAllEscapedQuote(_, _)
ReplaceAllEscapedQuote(s, i) ==
    IF i > Len(s) THEN <<>>
    ELSE IF s[i] = "\\" /\ i < Len(s) /\ s[i+1] = "\""
         THEN <<"\"">> \o ReplaceAllEscapedQuote(s, i + 2)
         ELSE <<s[i]>> \o ReplaceAllEscapedQuote(s, i + 1)

RECURSIVE scanString(_, _, _)
scanString(s, j, builder) ==
    IF j > Len(s)
    THEN Scanned(<<Lexeme(STRING_T, ReplaceAllEscapedQuote(builder, 1))>>, j, FALSE)
    ELSE IF s[j] = "\""
         THEN IF Len(builder) > 0 /\ builder[Len(builder)] = "\\"
              THEN scanString(s, j + 1, Append(builder, s[j]))
              ELSE Scanned(<<Lexeme(STRING_T, ReplaceAllEscapedQuote(builder, 1))>>,
                           j + 1, FALSE)
         ELSE scanString(s, j + 1, Append(builder, s[j]))

RECURSIVE scanIdentifier(_, _, _)
scanIdentifier(s, j, builder) ==
    IF j <= Len(s) /\ (IsLetter(s[j]) \/ IsDigit(s[j]))
    THEN scanIdentifier(s, j + 1, Append(builder, s[j]))
    ELSE Scanned(<<Lexeme(reservedWords(builder), builder)>>, j, FALSE)

RECURSIVE scanNumber(_, _, _, _)
scanNumber(s, j, tokType, builder) ==
    IF j > Len(s) THEN Scanned(<<Lexeme(tokType, builder)>>, j, FALSE)
    ELSE IF s[j] = "."
         THEN IF j + 1 <= Len(s) /\ s[j+1] = "."
              THEN Scanned(<<Lexeme(tokType, builder), Lexeme(DOTDOT_SYM, <<".",".">>)>>,
                           j + 2, FALSE)
              ELSE scanNumber(s, j + 1, FLOAT_T, Append(builder, "."))
         ELSE IF IsDigit(s[j])
              THEN scanNumber(s, j + 1, tokType, Append(builder, s[j]))
              ELSE Scanned(<<Lexeme(tokType, builder)>>, j, FALSE)

(* index of the first c at or after j, 0 when there is none: ReadString(c) *)
RECURSIVE IndexFrom(_, _, _)
IndexFrom(s, j, c) ==
    IF j > Len(s) THEN 0 ELSE IF s[j] = c THEN j ELSE IndexFrom(s, j + 1, c)

RECURSIVE scanMultiLineComment(_, _)
scanMultiLineComment(s, j) ==
    LET k == IndexFrom(s, j, "*")
    IN  IF k = 0 \/ k + 1 > Len(s) THEN Scanned(<<>>, Len(s) + 1, TRUE)
        ELSE IF s[k+1] = "/" THEN Scanned(<<>>, k + 2, FALSE)
             ELSE scanMultiLineComment(s, k + 1)

scanSymbol(s, i) ==
    LET single == s[i]
        hasPeek == i + 1 <= Len(s)
        double == IF hasPeek THEN <<s[i], s[i+1]>> ELSE <<>>
        one == IF single \in singleSymbols
               THEN Scanned(<<Lexeme(single, <<single>>)>>, i + 1, FALSE)
               ELSE Scanned(<<>>, i + 1, FALSE)
    IN  IF hasPeek /\ double \in doubleSymbols
        THEN Scanned(<<Lexeme(doubleKind(double), double)>>, i + 2, FALSE)
        ELSE IF hasPeek /\ double = <<"/","/">>
        THEN LET nl == IndexFrom(s, i + 1, "\n")
             IN  Scanned(<<>>, IF nl = 0 THEN Len(s) + 1 ELSE nl + 1, FALSE)
        ELSE IF hasPeek /\ double = <<"/","*">>
        THEN scanMultiLineComment(s, i + 2)
        ELSE one

(* the switch of scanTokens on the rune read at i, lexer.go:134-143 *)
scanRune(s, i) ==
    LET r == s[i]
    IN  CASE r = "\"" -> scanString(s, i + 1, <<>>)
          [] IsDigit(r) -> scanNumber(s, i + 1, INTEGER_T, <<r>>)
          [] IsLetter(r) -> scanIdentifier(s, i + 1, <<r>>)
          [] OTHER -> scanSymbol(s, i)

(* scanTokens, lexer.go:126-145: the whole token sequence sent for text s, *)
(* and whether the channel was closed (END_OF_FILE sent) or the run died.  *)
RECURSIVE scanTokens(_, _, _)
scanTokens(s, i, out) ==
    IF i > Len(s)
    THEN [sent |-> Append(out, Lexeme(END_OF_FILE, <<>>)), closed |-> TRUE]
    ELSE LET x == scanRune(s, i)
         IN  IF x.fatal THEN [sent |-> out \o x.sent, closed |-> FALSE]
             ELSE scanTokens(s, x.next, out \o x.sent)

CreateScanner(text) == scanTokens(Replacer(text, 1), 1, <<>>)

-----------------------------------------------------------------------------
(* strconv.Atoi on a digit string (parseInteger, parser.go:275-281) *)

DigitVal(c) == (CHOOSE i \in 1..10 : Digits[i] = c) - 1

RECURSIVE Atoi(_)
Atoi(text) ==
    IF Len(text) = 0 THEN 0
    ELSE 10 * Atoi(SubSeq(text, 1, Len(text) - 1)) + DigitVal(text[Len(text)])

RECURSIVE Pow10(_)
Pow10(n) == IF n = 0 THEN 1 ELSE 10 * Pow10(n - 1)

RECURSIVE Gcd(_, _)
Gcd(a, b) == IF b = 0 THEN a ELSE Gcd(b, a % b)

Abs(x) == IF x < 0 THEN -x ELSE x

(* A float64 is the exact rational num/den in lowest terms, den > 0. *)
Rat(n, d) ==
    LET g == Gcd(Abs(n), Abs(d))
        s == IF d < 0 THEN -1 ELSE 1
    IN  [num |-> (s * n) \div g, den |-> (s * d) \div g]

(* strconv.ParseFloat on the text of a FLOAT lexeme: digits, one ".", digits; *)
(* any other text is an error and the value is 0 (the error is dropped).      *)
ParseFloat(text) ==
    LET dot == IndexFrom(text, 1, ".")
        frac == SubSeq(text, dot + 1, Len(text))
    IN  IF dot = 0 THEN Rat(Atoi(text), 1)
        ELSE IF IndexFrom(frac, 1, ".") # 0 THEN Rat(0, 1)
        ELSE Rat(Atoi(SubSeq(text, 1, dot - 1) \o frac), Pow10(Len(frac)))

-----------------------------------------------------------------------------
(* AST nodes, parser.go:44-153.  A nil Node is NilNode. *)

NilNode == [k |-> "nil"]
IsNilNode(n) == n.k = "nil"
ArrayLiteral(elems) == [k |-> "ArrayLiteral", Elements |-> elems]
StringLiteral(v) == [k |-> "StringLiteral", Value |-> v]
Ident(lex, isFunc) == [k |-> "Ident", Lexeme |-> lex, IsFunc |-> isFunc]
IntegerLiteral(lex, v) == [k |-> "IntegerLiteral", Lexeme |-> lex, Value |-> v]
FloatLiteral(lex, v) == [k |-> "FloatLiteral", Lexeme |-> lex, Value |-> v]
BooleanLiteral(lex, v) == [k |-> "BooleanLiteral", Lexeme |-> lex, Value |-> v]
ReturnStmt(e) == [k |-> "ReturnStmt", Expr |-> e]
VarAssign(name, v) == [k |-> "VarAssign", Name |-> name, Value |-> v]
PrefixOp(lex, e) == [k |-> "PrefixOp", Lexeme |-> lex, Expr |-> e]
InfixOp(lex, l, r) == [k |-> "InfixOp", Lexeme |-> lex, Left |-> l, Right |-> r]
BlockStmt(stmts) == [k |-> "BlockStmt", Stmts |-> stmts]
IfStmt(c, t, e) == [k |-> "IfStmt", Condition |-> c, Then |-> t, Else |-> e]
ForStmt(key, val, target, body) ==
    [k |-> "ForStmt", Key |-> key, Value |-> val, Target |-> target, Body |-> body]
RangeExpr(from, to, step) == [k |-> "RangeExpr", From |-> from, To |-> to, Step |-> step]
PrintStmt(args, nl) == [k |-> "PrintStmt", Args |-> args, NewLine |-> nl]
IndexExpr(coll, idx) == [k |-> "IndexExpr", Collection |-> coll, Index |-> idx]
MapLiteral(pairs) == [k |-> "MapLiteral", Pairs |-> pairs]
FunctionLiteral(name, params, body) ==
    [k |-> "FunctionLiteral", Name |-> name, Params |-> params, Body |-> body]
CallExpr(fn, args) == [k |-> "CallExpr", Function |-> fn, Args |-> args]
SwapStmt(a, b) == [k |-> "SwapStmt", A |-> a, B |-> b]
ImportStmt(f) == [k |-> "ImportStmt", File |-> f]
InputStmt(p) == [k |-> "InputStmt", Prompt |-> p]
LengthExpr(t) == [k |-> "LengthExpr", Target |-> t]

-----------------------------------------------------------------------------
(* The analyzer, parser.go:7-542 *)

LOWEST_PREC == 1
PREC_EQUALS == 2
PREC_LESSGREATER == 3
PREC_SUM == 4
PREC_PRODUCT == 5
PREC_PREFIX == 6
PREC_CALL == 7
PREC_INDEX == 8
PREC_RANGE == 9

(* a precedence table in which * and / bind no tighter than + and - *)
getPrecedence_flat(kind) ==
    CASE kind \in {ASSIGN, EQ_OP, NEQ_OP} -> PREC_EQUALS
      [] kind \in {LESS_THAN, GREATER_THAN, LESS_EQ, GREATER_EQ} -> PREC_LESSGREATER
      [] kind \in {PLUS_SYM, MINUS_SYM, DIVIDE_SYM, MULTIPLY_SYM} -> PREC_SUM
      [] kind = OPEN_PAREN -> PREC_CALL
      [] kind = OPEN_BRACKET -> PREC_INDEX
      [] kind = DOTDOT_SYM -> PREC_RANGE
      [] OTHER -> LOWEST_PREC

(* precedences and getPrecedence *)
getPrecedence(kind) ==
    CASE kind \in {ASSIGN, EQ_OP, NEQ_OP} -> PREC_EQUALS
      [] kind \in {LESS_THAN, GREATER_THAN, LESS_EQ, GREATER_EQ} -> PREC_LESSGREATER
      [] kind \in {PLUS_SYM, MINUS_SYM} -> PREC_SUM
      [] kind \in {DIVIDE_SYM, MULTIPLY_SYM} -> PREC_PRODUCT
      [] kind = OPEN_PAREN -> PREC_CALL
      [] kind = OPEN_BRACKET -> PREC_INDEX
      [] kind = DOTDOT_SYM -> PREC_RANGE
      [] OTHER -> LOWEST_PREC

prefixKinds ==
    {IDENTIFIER, STRING_T, INTEGER_T, FLOAT_T, MINUS_SYM, EXCLAMATION, TRUE_T,
     FALSE_T, OPEN_PAREN, IF_T, FUNCTION_T, PRINT_T, PRINTLN_T, OPEN_BRACKET,
     OPEN_CURLY, FOR_T, RETURN_T, SWAP_T, INPUT_T, LENGTH_T, IMPORT_T}

infixOperatorKinds ==
    {OR_T, AND_T, PLUS_SYM, MINUS_SYM, MULTIPLY_SYM, DIVIDE_SYM, EQ_OP, NEQ_OP,
     GREATER_THAN, GREATER_EQ, LESS_THAN, LESS_EQ}

infixKinds == infixOperatorKinds \cup {OPEN_PAREN, OPEN_BRACKET, DOTDOT_SYM, ASSIGN}

(* The lexeme the analyzer holds after reading i lexemes from the channel:  *)
(* CreateParser's two reads take the zero Lexeme from a closed channel,     *)
(* advance takes END_OF_FILE from it.                                       *)
LexAt(t, i) ==
    IF i <= Len(t) THEN t[i]
    ELSE IF i <= 2 THEN Lexeme("", <<>>) ELSE Lexeme(END_OF_FILE, <<>>)

curLex(t, p) == LexAt(t, p)
nxtLex(t, p) == LexAt(t, p + 1)

(* A parse function's outcome: the node (or node list) built, the position  *)
(* of curLex when it returns, and "spin" when it never returns.             *)
Parsed(n, p) == [n |-> n, pos |-> p, st |-> "ok"]
Spinning(p) == [n |-> NilNode, pos |-> p, st |-> "spin"]

RECURSIVE parseExpr(_, _, _)
RECURSIVE parseExprLoop(_, _, _, _)
RECURSIVE parsePrefix(_, _)
RECURSIVE parseInfix(_, _, _)
RECURSIVE parseBlock(_, _, _)
RECURSIVE parseArgList(_, _, _)
RECURSIVE parseArrayLoop(_, _, _)
RECURSIVE parseMapLoop(_, _, _)

parseIdent(t, p) == Parsed(Ident(curLex(t, p), nxtLex(t, p).Kind = OPEN_PAREN), p)

parseRet(t, p) ==
    LET e == parseExpr(t, p + 1, LOWEST_PREC)
    IN  IF e.st # "ok" THEN e ELSE Parsed(ReturnStmt(e.n), e.pos)

parseVarAssign(t, p, left) ==
    LET e == parseExpr(t, p + 1, LOWEST_PREC)
    IN  IF e.st # "ok" THEN e ELSE Parsed(VarAssign(left, e.n), e.pos)

parseGroup(t, p) ==
    LET e == parseExpr(t, p + 1, LOWEST_PREC)
    IN  IF e.st # "ok" THEN e ELSE Parsed(e.n, e.pos + 1)

parsePrefixOperator(t, p) ==
    LET e == parseExpr(t, p + 1, PREC_PREFIX)
    IN  IF e.st # "ok" THEN e ELSE Parsed(PrefixOp(curLex(t, p), e.n), e.pos)

parseInfixOperator(t, p, left) ==
    LET e == parseExpr(t, p + 1, getPrecedence(curLex(t, p).Kind))
    IN  IF e.st # "ok" THEN e ELSE Parsed(InfixOp(curLex(t, p), left, e.n), e.pos)

(* parseBlock's loop: stmts so far, p the position of curLex *)
parseBlock(t, p, stmts) ==
    IF nxtLex(t, p).Kind = CLOSE_CURLY THEN Parsed(BlockStmt(stmts), p + 1)
    ELSE IF nxtLex(t, p).Kind = END_OF_FILE THEN Spinning(p)
    ELSE LET e == parseExpr(t, p + 1, LOWEST_PREC)
         IN  IF e.st # "ok" THEN e ELSE parseBlock(t, e.pos, Append(stmts, e.n))

parseIf(t, p) ==
    LET c == parseExpr(t, p + 1, LOWEST_PREC)
        th == parseBlock(t, c.pos + 1, <<>>)
        el == parseBlock(t, th.pos + 2, <<>>)
    IN  IF c.st # "ok" THEN c
        ELSE IF th.st # "ok" THEN th
        ELSE IF nxtLex(t, th.pos).Kind # ELSE_T
             THEN Parsed(IfStmt(c.n, th.n, NilNode), th.pos)
        ELSE IF el.st # "ok" THEN el
        ELSE Parsed(IfStmt(c.n, th.n, el.n), el.pos)

parseFor(t, p) ==
    LET key == Ident(curLex(t, p + 1), nxtLex(t, p + 1).Kind = OPEN_PAREN)
        comma == nxtLex(t, p + 1).Kind = COMMA_SYM
        q == IF comma THEN p + 3 ELSE p + 1
        val == IF comma THEN Ident(curLex(t, q), nxtLex(t, q).Kind = OPEN_PAREN)
               ELSE NilNode
        tg == parseExpr(t, q + 2, LOWEST_PREC)
        body == parseBlock(t, tg.pos + 1, <<>>)
    IN  IF tg.st # "ok" THEN tg
        ELSE IF body.st # "ok" THEN body
        ELSE Parsed(ForStmt(key, val, tg.n, body.n), body.pos)

parseRange(t, p, left) ==
    LET to == parseExpr(t, p + 1, LOWEST_PREC)
        step == parseExpr(t, to.pos + 2, LOWEST_PREC)
    IN  IF to.st # "ok" THEN to
        ELSE IF nxtLex(t, to.pos).Kind # COLON_SYM
             THEN Parsed(RangeExpr(left, to.n, NilNode), to.pos)
        ELSE IF step.st # "ok" THEN step
        ELSE Parsed(RangeExpr(left, to.n, step.n), step.pos)

(* parseArgList's loop: args so far; the node returned is the list *)
parseArgList(t, p, args) ==
    IF nxtLex(t, p).Kind = CLOSE_PAREN THEN Parsed(args, p + 1)
    ELSE IF nxtLex(t, p).Kind = END_OF_FILE THEN Spinning(p)
    ELSE LET q == IF curLex(t, p + 1).Kind = COMMA_SYM THEN p + 2 ELSE p + 1
             e == parseExpr(t, q, LOWEST_PREC)
         IN  IF e.st # "ok" THEN e ELSE parseArgList(t, e.pos, Append(args, e.n))

parsePrint(t, p) ==
    LET a == parseArgList(t, p + 1, <<>>)
    IN  IF a.st # "ok" THEN a
        ELSE Parsed(PrintStmt(a.n, curLex(t, p).Kind = PRINTLN_T), a.pos)

(* parseArray's loop: p the position of curLex at the loop test *)
parseArrayLoop(t, p, elems) ==
    IF curLex(t, p).Kind = CLOSE_BRACKET THEN Parsed(ArrayLiteral(elems), p)
    ELSE IF curLex(t, p).Kind = END_OF_FILE THEN Spinning(p)
    ELSE LET e == parseExpr(t, p, LOWEST_PREC)
             q == IF curLex(t, e.pos + 1).Kind = COMMA_SYM THEN e.pos + 2 ELSE e.pos + 1
         IN  IF e.st # "ok" THEN e ELSE parseArrayLoop(t, q, Append(elems, e.n))

parseArray(t, p) == parseArrayLoop(t, p + 1, <<>>)

parseIndex(t, p, left) ==
    LET e == parseExpr(t, p + 1, LOWEST_PREC)
    IN  IF e.st # "ok" THEN e ELSE Parsed(IndexExpr(left, e.n), e.pos + 1)

(* m.Pairs[key] = val on the pair list: a key node equal to an earlier one  *)
(* replaces that entry's value.                                             *)
PutPair(pairs, key, val) ==
    IF \E i \in 1..Len(pairs) : pairs[i].key.k = key.k /\ pairs[i].key = key
    THEN [i \in 1..Len(pairs) |->
             IF pairs[i].key.k = key.k /\ pairs[i].key = key THEN [key |-> key, val |-> val] ELSE pairs[i]]
    ELSE Append(pairs, [key |-> key, val |-> val])

(* parseMap's loop: p the position of curLex at the top of the loop body *)
parseMapLoop(t, p, pairs) ==
    IF curLex(t, p).Kind = END_OF_FILE THEN Spinning(p)
    ELSE LET key == parseExpr(t, p, LOWEST_PREC)
             val == parseExpr(t, key.pos + 2, LOWEST_PREC)
             q == IF nxtLex(t, val.pos).Kind = COMMA_SYM THEN val.pos + 2 ELSE val.pos
             m == PutPair(pairs, key.n, val.n)
         IN  IF key.st # "ok" THEN key
             ELSE IF val.st # "ok" THEN val
             ELSE IF nxtLex(t, q).Kind = CLOSE_CURLY THEN Parsed(MapLiteral(m), q + 1)
             ELSE parseMapLoop(t, q, m)

parseMap(t, p) == parseMapLoop(t, p + 1, <<>>)

(* parseParamList's loop *)
RECURSIVE parseParamList(_, _, _)
parseParamList(t, p, params) ==
    IF nxtLex(t, p).Kind = CLOSE_PAREN THEN Parsed(params, p + 2)
    ELSE IF nxtLex(t, p).Kind = END_OF_FILE THEN Spinning(p)
    ELSE LET q == IF curLex(t, p + 1).Kind = COMMA_SYM THEN p + 2 ELSE p + 1
         IN  parseParamList(t, q, Append(params, Ident(curLex(t, q), FALSE)))

parseFunction(t, p) ==
    LET ps == parseParamList(t, p + 2, <<>>)
        body == parseBlock(t, ps.pos, <<>>)
    IN  IF ps.st # "ok" THEN ps
        ELSE IF body.st # "ok" THEN body
        ELSE Parsed(FunctionLiteral(curLex(t, p + 1).Text, ps.n, body.n), body.pos)

parseCall(t, p, function) ==
    LET a == parseArgList(t, p, <<>>)
    IN  IF a.st # "ok" THEN a ELSE Parsed(CallExpr(function, a.n), a.pos)

parseSwap(t, p) ==
    LET a == parseExpr(t, p + 2, LOWEST_PREC)
        b == parseExpr(t, a.pos + 2, LOWEST_PREC)
    IN  IF a.st # "ok" THEN a
        ELSE IF b.st # "ok" THEN b
        ELSE Parsed(SwapStmt(a.n, b.n), b.pos)

(* parseImport, parseInput, parseLen: advance twice, one expression, advance *)
parseCallLike(t, p, kind) ==
    LET e == parseExpr(t, p + 2, LOWEST_PREC)
    IN  IF e.st # "ok" THEN e
        ELSE Parsed(CASE kind = IMPORT_T -> ImportStmt(e.n)
                      [] kind = INPUT_T -> InputStmt(e.n)
                      [] OTHER -> LengthExpr(e.n), e.pos + 1)

parsePrefix(t, p) ==
    LET lex == curLex(t, p)
        kind == lex.Kind
    IN  CASE kind = IDENTIFIER -> parseIdent(t, p)
          [] kind = STRING_T -> Parsed(StringLiteral(lex.Text), p)
          [] kind = INTEGER_T -> Parsed(IntegerLiteral(lex, Atoi(lex.Text)), p)
          [] kind = FLOAT_T -> Parsed(FloatLiteral(lex, ParseFloat(lex.Text)), p)
          [] kind \in {MINUS_SYM, EXCLAMATION} -> parsePrefixOperator(t, p)
          [] kind \in {TRUE_T, FALSE_T} -> Parsed(BooleanLiteral(lex, kind = TRUE_T), p)
          [] kind = OPEN_PAREN -> parseGroup(t, p)
          [] kind = IF_T -> parseIf(t, p)
          [] kind = FUNCTION_T -> parseFunction(t, p)
          [] kind \in {PRINT_T, PRINTLN_T} -> parsePrint(t, p)
          [] kind = OPEN_BRACKET -> parseArray(t, p)
          [] kind = OPEN_CURLY -> parseMap(t, p)
          [] kind = FOR_T -> parseFor(t, p)
          [] kind = RETURN_T -> parseRet(t, p)
          [] kind = SWAP_T -> parseSwap(t, p)
          [] kind \in {INPUT_T, LENGTH_T, IMPORT_T} -> parseCallLike(t, p, kind)

(* the infix parser registered for curLex, called after parseExpr's advance *)
parseInfix(t, p, left) ==
    LET kind == curLex(t, p).Kind
    IN  CASE kind \in infixOperatorKinds -> parseInfixOperator(t, p, left)
          [] kind = OPEN_PAREN -> parseCall(t, p, left)
          [] kind = OPEN_BRACKET -> parseIndex(t, p, left)
          [] kind = DOTDOT_SYM -> parseRange(t, p, left)
          [] kind = ASSIGN -> parseVarAssign(t, p, left)

parseExprLoop(t, p, prec, left) ==
    IF getPrecedence(nxtLex(t, p).Kind) > prec
    THEN IF nxtLex(t, p).Kind \notin infixKinds THEN Parsed(left, p)
         ELSE LET r == parseInfix(t, p + 1, left)
              IN  IF r.st # "ok" THEN r ELSE parseExprLoop(t, r.pos, prec, r.n)
    ELSE Parsed(left, p)

parseExpr(t, p, prec) ==
    LET left == IF curLex(t, p).Kind \in prefixKinds THEN parsePrefix(t, p)
                ELSE Parsed(NilNode, p)
    IN  IF left.st # "ok" THEN left ELSE parseExprLoop(t, left.pos, prec, left.n)

(* processParsing, parser.go:239-248: the nodes sent on astNodes, and       *)
(* whether the channel gets closed or the goroutine spins in a loop.        *)
RECURSIVE processParsing(_, _, _)
processParsing(t, p, out) ==
    IF curLex(t, p).Kind = END_OF_FILE THEN [sent |-> out, closed |-> TRUE]
    ELSE LET r == parseExpr(t, p, LOWEST_PREC)
         IN  IF r.st # "ok" THEN [sent |-> out, closed |-> FALSE]
             ELSE processParsing(t, r.pos + 1,
                                 IF IsNilNode(r.n) THEN out ELSE Append(out, r.n))

CreateParser(t) == processParsing(t, 1, <<>>)

-----------------------------------------------------------------------------
(* Runtime values (Go's any): a tag t and a payload v.  Arrays and maps are *)
(* references into the heap (Go slices and maps share their storage).       *)

Nil == [t |-> "nil", v |-> 0]
IntV(i) == [t |-> "int", v |-> i]
FloatV(r) == [t |-> "float", v |-> r]
StrV(s) == [t |-> "string", v |-> s]
BoolV(b) == [t |-> "bool", v |-> b]
ArrV(id) == [t |-> "array", v |-> id]
MapV(id) == [t |-> "map", v |-> id]
FuncV(fn, env) == [t |-> "func", v |-> [fn |-> fn, env |-> env]]
(* a Go run-time panic raised while computing a value *)
PanicV == [t |-> "panic", v |-> 0]

VEq(a, b) == a.t = b.t /\ a.v = b.v

(* Go's int division truncates toward zero *)
GoDiv(a, b) ==
    IF (a < 0) # (b < 0) THEN -(Abs(a) \div Abs(b)) ELSE Abs(a) \div Abs(b)

Sgn(x) == IF x > 0 THEN 1 ELSE IF x < 0 THEN -1 ELSE 0

(* float64 arithmetic on the rationals; den = 0 is +Inf, -Inf or NaN *)
FRat(n, d) == IF d = 0 THEN [num |-> Sgn(n), den |-> 0] ELSE Rat(n, d)
ToFloat(i) == [num |-> i, den |-> 1]
IsNaN(x) == x.den = 0 /\ x.num = 0
FAdd(x, y) == FRat(x.num * y.den + y.num * x.den, x.den * y.den)
FSub(x, y) == FRat(x.num * y.den - y.num * x.den, x.den * y.den)
FMul(x, y) == FRat(x.num * y.num, x.den * y.den)
FDiv(x, y) == FRat(x.num * y.den, x.den * y.num)
FLess(x, y) ==
    /\ ~IsNaN(x) /\ ~IsNaN(y)
    /\ IF x.den = 0 \/ y.den = 0 THEN x.num * (IF x.den = 0 THEN 1 ELSE 0)
                                        < y.num * (IF y.den = 0 THEN 1 ELSE 0)
       ELSE x.num * y.den < y.num * x.den
FEq(x, y) == ~IsNaN(x) /\ ~IsNaN(y) /\ x = y

(* the operator texts (Lexeme.Text) *)
opGT == <<">">>
opGE == <<">", "=">>
opLT == <<"<">>
opLE == <<"<", "=">>
opEQ == <<"=", "=">>
opNE == <<"!", "=">>
opAdd == <<"+">>
opSub == <<"-">>
opMul == <<"*">>
opDiv == <<"/">>
opOr == <<"o", "r">>
opAnd == <<"a", "n", "d">>
opNot == <<"!">>

(* strconv.Itoa *)
RECURSIVE NatText(_)
NatText(n) == IF n < 10 THEN <<Digits[n + 1]>> ELSE Append(NatText(n \div 10), Digits[(n % 10) + 1])

Itoa(i) == IF i < 0 THEN <<"-">> \o NatText(-i) ELSE NatText(i)

(* the decimal digits of rem/den after the point, at most k of them *)
RECURSIVE FracDigits(_, _, _)
FracDigits(rem, den, k) ==
    IF rem = 0 \/ k = 0 THEN <<>>
    ELSE <<Digits[((rem * 10) \div den) + 1]>> \o FracDigits((rem * 10) % den, den, k - 1)

(* a float formatted as its integer part only *)
FormatFloat_whole(x) == Itoa(x.num \div (IF x.den = 0 THEN 1 ELSE x.den))

(* strconv.FormatFloat(x, 'f', -1, 64) *)
FormatFloat(x) ==
    IF x.den = 0
    THEN (CASE x.num > 0 -> <<"+","I","n","f">> [] x.num < 0 -> <<"-","I","n","f">>
            [] OTHER -> <<"N","a","N">>)
    ELSE LET a == Abs(x.num)
             whole == NatText(a \div x.den)
             frac == FracDigits(a % x.den, x.den, 17)
         IN  (IF x.num < 0 THEN <<"-">> ELSE <<>>) \o whole
                \o (IF Len(frac) = 0 THEN <<>> ELSE <<".">> \o frac)

(* strconv.Atoi / strconv.ParseFloat on a run-time string: an optional      *)
(* sign, digits (and one "." for floats); anything else is an error, which  *)
(* the callers drop, and the value 0.                                       *)
AllDigits(text) == Len(text) > 0 /\ \A i \in 1..Len(text) : IsDigit(text[i])

AtoiString(text) ==
    LET signed == Len(text) > 0 /\ text[1] \in {"+", "-"}
        body == IF signed THEN SubSeq(text, 2, Len(text)) ELSE text
    IN  IF ~AllDigits(body) THEN 0
        ELSE IF signed /\ text[1] = "-" THEN -Atoi(body) ELSE Atoi(body)

ParseFloatString(text) ==
    LET signed == Len(text) > 0 /\ text[1] \in {"+", "-"}
        body == IF signed THEN SubSeq(text, 2, Len(text)) ELSE text
        dot == IndexFrom(body, 1, ".")
        digits == IF dot = 0 THEN body
                  ELSE SubSeq(body, 1, dot - 1) \o SubSeq(body, dot + 1, Len(body))
        x == ParseFloat(body)
    IN  IF ~AllDigits(digits) THEN ToFloat(0)
        ELSE IF signed /\ text[1] = "-" THEN [num |-> -x.num, den |-> x.den] ELSE x

-----------------------------------------------------------------------------
(* The binary operators of the Environment evaluator, evaluator.go:175-343 *)

evalIntInt(l, r, operator) ==
    CASE operator = opGT -> BoolV(l > r)
      [] operator = opGE -> BoolV(l >= r)
      [] operator = opLT -> BoolV(l < r)
      [] operator = opLE -> BoolV(l <= r)
      [] operator = opEQ -> BoolV(l = r)
      [] operator = opNE -> BoolV(l # r)
      [] operator = opAdd -> IntV(l + r)
      [] operator = opSub -> IntV(l - r)
      [] operator = opMul -> IntV(l * r)
      [] operator = opDiv -> IF r = 0 THEN PanicV ELSE IntV(GoDiv(l, r))
      [] OTHER -> Nil

evalFloatFloat(l, r, operator) ==
    CASE operator = opGT -> BoolV(FLess(r, l))
      [] operator = opGE -> BoolV(FLess(r, l) \/ FEq(l, r))
      [] operator = opLT -> BoolV(FLess(l, r))
      [] operator = opLE -> BoolV(FLess(l, r) \/ FEq(l, r))
      [] operator = opEQ -> BoolV(FEq(l, r))
      [] operator = opNE -> BoolV(~FEq(l, r))
      [] operator = opAdd -> FloatV(FAdd(l, r))
      [] operator = opSub -> FloatV(FSub(l, r))
      [] operator = opMul -> FloatV(FMul(l, r))
      [] operator = opDiv -> FloatV(FDiv(l, r))
      [] OTHER -> Nil

evalIntString(l, rr, operator) ==
    LET r == AtoiString(rr)
    IN  CASE operator = opAdd -> IntV(l + r)
          [] operator = opSub -> IntV(l - r)
          [] operator = opMul -> IntV(l * r)
          [] operator = opDiv -> IF r = 0 THEN PanicV ELSE IntV(GoDiv(l, r))
          [] OTHER -> IntV(0)

evalFloatString(l, rr, operator) ==
    LET r == ParseFloatString(rr)
    IN  CASE operator = opAdd -> FloatV(FAdd(l, r))
          [] operator = opSub -> FloatV(FSub(l, r))
          [] operator = opMul -> FloatV(FMul(l, r))
          [] operator = opDiv -> FloatV(FDiv(l, r))
          [] OTHER -> FloatV(ToFloat(0))

(* l := float64(ll.(int)); r := rr.(float64) *)
evalIntFloat(ll, rr, operator) == evalFloatFloat(ToFloat(ll), rr, operator)

evalStringString(l, r, operator) ==
    IF operator = opAdd THEN StrV(l \o r) ELSE StrV(<<>>)

evalStringInt(l, r, operator) ==
    IF operator = opAdd THEN StrV(l \o Itoa(r)) ELSE StrV(<<>>)

evalStringFloat(l, r, operator) ==
    IF operator = opAdd THEN StrV(l \o FormatFloat(r)) ELSE StrV(<<>>)

evalBoolBool(l, r, operator) ==
    CASE operator = opEQ -> BoolV(l = r)
      [] operator = opNE -> BoolV(l # r)
      [] operator = opOr -> BoolV(l \/ r)
      [] operator = opAnd -> BoolV(l /\ r)
      [] OTHER -> BoolV(FALSE)

(* InfixOp.Evaluate on the two operand values, evaluator.go:120-173 *)
InfixOpValue(l, r, operator) ==
    IF l.t = "nil" THEN r
    ELSE IF r.t = "nil" THEN l
    ELSE CASE l.t = "int" /\ r.t = "int" -> evalIntInt(l.v, r.v, operator)
           [] l.t = "int" /\ r.t = "string" -> evalIntString(l.v, r.v, operator)
           [] l.t = "int" /\ r.t = "float" -> evalIntFloat(l.v, r.v, operator)
           [] l.t = "float" /\ r.t = "int" -> evalIntFloat(r.v, l.v, operator)
           [] l.t = "float" /\ r.t = "string" -> evalFloatString(l.v, r.v, operator)
           [] l.t = "float" /\ r.t = "float" -> evalFloatFloat(l.v, r.v, operator)
           [] l.t = "string" /\ r.t = "string" -> evalStringString(l.v, r.v, operator)
           [] l.t = "string" /\ r.t = "int" -> evalStringInt(l.v, r.v, operator)
           [] l.t = "string" /\ r.t = "float" -> evalStringFloat(l.v, r.v, operator)
           [] l.t = "bool" /\ r.t = "bool" -> evalBoolBool(l.v, r.v, operator)
           [] OTHER -> Nil

(* evalPrefix, evaluator.go:103-115 *)
evalPrefix(prefix, v) ==
    CASE v.t = "bool" -> IF prefix = opNot THEN BoolV(~v.v) ELSE Nil
      [] v.t = "int" -> IntV(v.v * (-1))
      [] v.t = "float" -> FloatV([num |-> -(v.v.num), den |-> v.v.den])
      [] OTHER -> Nil

------------------------------------------------------------------------(* what CreateScanner and CreateParser deliver on the text of a file: the   *)
(* nodes, and how the delivery ends ("ok": astNodes is closed, "fatal": the *)
(* scanner ends the process, "loop": the parser never closes astNodes)      *)
LoadScript(text) ==
    LET l == CreateScanner(text)
        p == CreateParser(l.sent)
    IN  [nodes |-> p.sent,
         how |-> IF ~l.closed THEN "fatal" ELSE IF ~p.closed THEN "loop" ELSE "ok"]

-----
(* The store: the scopes created so far (Environment / Scope objects, named *)
(* by their index; parent 0 is nil), the heap of arrays and maps, what was  *)
(* printed, the files import can read (each as the LoadScript of its text), *)
(* the lines input can read, the order                                      *)
(* in which Go ranges over a map ("fwd" or "rev" of the insertion order),   *)
(* the depth of nested calls, and the Scope field of each *FunctionNode.    *)

MaxDepth == 6

NewStore(files, stdin) ==
    [scopes |-> <<[variables |-> <<>>, functions |-> <<>>, parent |-> 0]>>,
     heap |-> <<>>, out |-> <<>>, files |-> files, stdin |-> stdin,
     oracle |-> "fwd", depth |-> 0, fnScope |-> <<>>]

(* the outcome of evaluating a node: the value, the store after it, and     *)
(* "ok", or how the run ended: "panic" (a Go run-time panic), "fatal"       *)
(* (log.Fatal), "loop" (a loop that never ends), "overflow" (call depth)    *)
Ok(v, st) == [v |-> v, st |-> st, ok |-> "ok"]
Abort(how, st) == [v |-> Nil, st |-> st, ok |-> how]

(* a new scope that is cut off from the scope it is created under *)
CreateEnvironment_detached(st, parent) ==
    [st EXCEPT !.scopes = Append(@, [variables |-> <<>>, functions |-> <<>>,
                                     parent |-> 0])]

(* no scope is created: the scope created last is used again *)
CreateEnvironment_reuse(st, parent) == st

(* CreateEnvironment, evaluator.go:17-23: the new scope is the last one *)
CreateEnvironment(st, parent) ==
    [st EXCEPT !.scopes = Append(@, [variables |-> <<>>, functions |-> <<>>,
                                     parent |-> parent])]

(* env.variables[name] = v *)
BindVariable(st, env, name, v) ==
    [st EXCEPT !.scopes[env].variables = (name :> v) @@ @]

(* SetFunction, evaluator.go:51-53 *)
SetFunction(st, env, name, v) ==
    [st EXCEPT !.scopes[env].functions = (name :> v) @@ @]

(* GetVariable, evaluator.go:43-49 *)
RECURSIVE GetVariable(_, _, _)
GetVariable(st, env, s) ==
    LET e == st.scopes[env]
    IN  IF s \in DOMAIN e.variables THEN [v |-> e.variables[s], ok |-> TRUE]
        ELSE IF e.parent # 0 THEN GetVariable(st, e.parent, s)
        ELSE [v |-> Nil, ok |-> FALSE]

(* GetFunction, evaluator.go:55-61 *)
RECURSIVE GetFunction(_, _, _)
GetFunction(st, env, s) ==
    LET e == st.scopes[env]
    IN  IF s \in DOMAIN e.functions THEN [v |-> e.functions[s], ok |-> TRUE]
        ELSE IF e.parent # 0 THEN GetFunction(st, e.parent, s)
        ELSE [v |-> Nil, ok |-> FALSE]

(* make a new []any / map[any]any: its reference and the store holding it *)
NewArray(st, elems) ==
    Ok(ArrV(Len(st.heap) + 1), [st EXCEPT !.heap = Append(@, [t |-> "array", elems |-> elems])])

NewMap(st) ==
    Ok(MapV(Len(st.heap) + 1), [st EXCEPT !.heap = Append(@, [t |-> "map", entries |-> <<>>])])

(* an element assignment that writes to a copy of the array *)
ArrayStore_copy(st, id, i, v) == st

(* arr[i] = v, i counted from 0 *)
ArrayStore(st, id, i, v) == [st EXCEPT !.heap[id].elems[i + 1] = v]

(* m[key], nil when absent *)
MapLoad(st, id, key) ==
    LET es == st.heap[id].entries
    IN  IF \E i \in 1..Len(es) : VEq(es[i].key, key)
        THEN es[CHOOSE i \in 1..Len(es) : VEq(es[i].key, key)].val
        ELSE Nil

(* m[key] = v *)
MapStore(st, id, key, v) ==
    LET es == st.heap[id].entries
    IN  IF \E i \in 1..Len(es) : VEq(es[i].key, key)
        THEN [st EXCEPT !.heap[id].entries =
                 [i \in 1..Len(es) |-> IF VEq(es[i].key, key)
                                       THEN [key |-> key, val |-> v] ELSE es[i]]]
        ELSE [st EXCEPT !.heap[id].entries = Append(@, [key |-> key, val |-> v])]

(* a map key must be hashable: a slice, a map or a FunctionLiteral (a       *)
(* struct with a slice field) panics                                        *)
Hashable(v) == v.t \notin {"array", "map", "func"}

Reverse(s) == [i \in 1..Len(s) |-> s[Len(s) + 1 - i]]

(* the order in which range visits the entries of map id *)
MapOrder(st, id) ==
    IF st.oracle = "fwd" THEN st.heap[id].entries ELSE Reverse(st.heap[id].entries)

(* a descending loop that leaves out the last value *)
RECURSIVE RangeDown_exclusive(_, _, _, _)
RangeDown_exclusive(i, to, step, ret) ==
    IF i > to THEN RangeDown_exclusive(i + step, to, step, Append(ret, IntV(i))) ELSE ret

(* the loops of RangeExpr.Evaluate, evaluator.go:491-501 *)
RECURSIVE RangeUp(_, _, _, _)
RangeUp(i, to, step, ret) ==
    IF i <= to THEN RangeUp(i + step, to, step, Append(ret, IntV(i))) ELSE ret

RECURSIVE RangeDown(_, _, _, _)
RangeDown(i, to, step, ret) ==
    IF i >= to THEN RangeDown(i + step, to, step, Append(ret, IntV(i))) ELSE ret

-----------------------------------------------------------------------------
(* The Environment evaluator, evaluator.go (Node.Evaluate) *)

RECURSIVE Evaluate(_, _, _)
RECURSIVE SetVariable(_, _, _, _)
RECURSIVE evalExpressions(_, _, _, _, _)
RECURSIVE BlockStmtLoop(_, _, _, _, _)
RECURSIVE argsToEnvironment(_, _, _, _, _)
RECURSIVE applyFunction(_, _, _, _)
RECURSIVE ForLoop(_, _, _, _, _)
RECURSIVE MapLiteralLoop(_, _, _, _, _)
RECURSIVE EvaluateNodes(_, _, _, _, _)
RECURSIVE ImportNodes(_, _, _)

(* SetVariable, evaluator.go:25-41 *)
SetVariable(k, v, env, st) ==
    CASE k.k = "Ident" -> Ok(Nil, BindVariable(st, env, k.Lexeme.Text, v))
      [] k.k = "IndexExpr" ->
            IF k.Collection.k # "Ident" THEN Abort("panic", st)
            ELSE LET name == k.Collection.Lexeme.Text
                     index == Evaluate(k.Index, env, st)
                     t == GetVariable(index.st, env, name).v
                 IN  IF index.ok # "ok" THEN index
                     ELSE IF t.t = "array"
                     THEN IF index.v.t # "int" THEN Abort("panic", index.st)
                          ELSE IF index.v.v < 0
                                  \/ index.v.v >= Len(index.st.heap[t.v].elems)
                          THEN Abort("panic", index.st)
                          ELSE Ok(Nil, BindVariable(
                                   ArrayStore(index.st, t.v, index.v.v, v), env, name, t))
                     ELSE IF t.t = "map"
                     THEN IF ~Hashable(index.v) THEN Abort("panic", index.st)
                          ELSE Ok(Nil, BindVariable(
                                   MapStore(index.st, t.v, index.v, v), env, name, t))
                     ELSE Ok(Nil, BindVariable(index.st, env, name, t))
      [] OTHER -> Ok(Nil, st)

(* evalExpressions, evaluator.go:409-416: the values are in .v *)
evalExpressions(exps, i, env, st, res) ==
    IF i > Len(exps) THEN Ok(res, st)
    ELSE LET r == Evaluate(exps[i], env, st)
         IN  IF r.ok # "ok" THEN r
             ELSE evalExpressions(exps, i + 1, env, r.st, Append(res, r.v))

(* a block that never returns early: every statement is evaluated *)
RECURSIVE BlockStmtLoop_all(_, _, _, _, _)
BlockStmtLoop_all(stmts, i, env, st, last) ==
    IF i > Len(stmts) THEN Ok(last, st)
    ELSE IF IsNilNode(stmts[i]) THEN BlockStmtLoop_all(stmts, i + 1, env, st, last)
    ELSE LET r == Evaluate(stmts[i], env, st)
         IN  IF r.ok # "ok" THEN r
             ELSE BlockStmtLoop_all(stmts, i + 1, env, r.st, r.v)

(* BlockStmt.Evaluate, evaluator.go:345-360 *)
BlockStmtLoop(stmts, i, env, st, last) ==
    IF i > Len(stmts) THEN Ok(last, st)
    ELSE IF IsNilNode(stmts[i]) THEN BlockStmtLoop(stmts, i + 1, env, st, last)
    ELSE LET r == Evaluate(stmts[i], env, st)
         IN  IF r.ok # "ok" THEN r
             ELSE IF r.v.t # "nil" /\ stmts[i].k \in {"IfStmt", "ReturnStmt"} THEN r
             ELSE BlockStmtLoop(stmts, i + 1, env, r.st, r.v)

(* the parameter loop of argsToEnvironment, evaluator.go:435-437 *)
argsToEnvironment(params, args, i, env, st) ==
    IF i > Len(params) THEN Ok(Nil, st)
    ELSE IF i > Len(args) THEN Abort("panic", st)
    ELSE argsToEnvironment(params, args, i + 1, env,
                           SetVariable(params[i], args[i], env, st).st)

(* applyFunction, evaluator.go:430-444; fn is the payload of a function value *)
applyFunction(fn, args, fresh, st) ==
    LET st1 == IF fresh THEN CreateEnvironment(st, fn.env) ELSE st
        env == IF fresh THEN Len(st1.scopes) ELSE fn.env
        bound == argsToEnvironment(fn.fn.Params, args, 1, env, st1)
        body == Evaluate(fn.fn.Body, env, [bound.st EXCEPT !.depth = @ + 1])
    IN  IF bound.ok # "ok" THEN bound
        ELSE IF st.depth >= MaxDepth THEN Abort("overflow", bound.st)
        ELSE IF body.ok # "ok" THEN body
        ELSE Ok(body.v, [body.st EXCEPT !.depth = @ - 1])

(* a loop that runs every iteration in a new scope under the loop's scope *)
ForLoop_fresh(fn, items, i, st, arr) ==
    IF i > Len(items) THEN Ok(Nil, st)
    ELSE LET args == IF arr = 0 THEN items[i]
                     ELSE IF Len(fn.fn.Params) = 2
                          THEN <<IntV(i - 1), st.heap[arr].elems[i]>>
                          ELSE <<st.heap[arr].elems[i]>>
             r == applyFunction(fn, args, TRUE, st)
         IN  IF r.ok # "ok" THEN r ELSE ForLoop(fn, items, i + 1, r.st, arr)

(* the loops of ForStmt.Evaluate, evaluator.go:456-478: one applyFunction   *)
(* per element of items, each a list of arguments                           *)
ForLoop(fn, items, i, st, arr) ==
    IF i > Len(items) THEN Ok(Nil, st)
    ELSE LET args == IF arr = 0 THEN items[i]
                     ELSE IF Len(fn.fn.Params) = 2
                          THEN <<IntV(i - 1), st.heap[arr].elems[i]>>
                          ELSE <<st.heap[arr].elems[i]>>
             r == applyFunction(fn, args, FALSE, st)
         IN  IF r.ok # "ok" THEN r ELSE ForLoop(fn, items, i + 1, r.st, arr)

(* MapLiteral.Evaluate's loop, evaluator.go:382-384, over pairs in range order *)
MapLiteralLoop(pairs, i, env, st, id) ==
    IF i > Len(pairs) THEN Ok(MapV(id), st)
    ELSE LET key == Evaluate(pairs[i].key, env, st)
             val == Evaluate(pairs[i].val, env, key.st)
         IN  IF key.ok # "ok" THEN key
             ELSE IF val.ok # "ok" THEN val
             ELSE IF ~Hashable(key.v) THEN Abort("panic", val.st)
             ELSE MapLiteralLoop(pairs, i + 1, env, MapStore(val.st, id, key.v, val.v), id)

StringRunes(s) == [i \in 1..Len(s) |-> <<StrV(<<s[i]>>)>>]

(* Node.Evaluate, one case per node type *)
Evaluate(n, env, st) ==
    CASE n.k = "nil" -> Abort("panic", st)
      [] n.k = "IntegerLiteral" -> Ok(IntV(n.Value), st)
      [] n.k = "FloatLiteral" -> Ok(FloatV(n.Value), st)
      [] n.k = "BooleanLiteral" -> Ok(BoolV(n.Value), st)
      [] n.k = "StringLiteral" -> Ok(StrV(n.Value), st)
      [] n.k = "ReturnStmt" -> Evaluate(n.Expr, env, st)
      [] n.k = "Ident" ->
            IF n.IsFunc THEN Ok(GetFunction(st, env, n.Lexeme.Text).v, st)
            ELSE Ok(GetVariable(st, env, n.Lexeme.Text).v, st)
      [] n.k = "VarAssign" ->
            LET v == Evaluate(n.Value, env, st)
                w == SetVariable(n.Name, v.v, env, v.st)
            IN  IF v.ok # "ok" THEN v
                ELSE IF w.ok # "ok" THEN w
                ELSE Ok(v.v, w.st)
      [] n.k = "PrefixOp" ->
            LET v == Evaluate(n.Expr, env, st)
            IN  IF v.ok # "ok" THEN v ELSE Ok(evalPrefix(n.Lexeme.Text, v.v), v.st)
      [] n.k = "InfixOp" ->
            LET l == Evaluate(n.Left, env, st)
                r == Evaluate(n.Right, env, l.st)
                v == InfixOpValue(l.v, r.v, n.Lexeme.Text)
            IN  IF l.ok # "ok" THEN l
                ELSE IF r.ok # "ok" THEN r
                ELSE IF v.t = "panic" THEN Abort("panic", r.st)
                ELSE Ok(v, r.st)
      [] n.k = "BlockStmt" -> BlockStmtLoop(n.Stmts, 1, env, st, Nil)
      [] n.k = "IfStmt" ->
            LET c == Evaluate(n.Condition, env, st)
            IN  IF c.ok # "ok" THEN c
                ELSE IF c.v.t # "bool" THEN Abort("panic", c.st)
                ELSE IF c.v.v THEN Evaluate(n.Then, env, c.st)
                ELSE IF ~IsNilNode(n.Else) THEN Evaluate(n.Else, env, c.st)
                ELSE Ok(Nil, c.st)
      [] n.k = "ArrayLiteral" ->
            LET es == evalExpressions(n.Elements, 1, env, st, <<>>)
            IN  IF es.ok # "ok" THEN es ELSE NewArray(es.st, es.v)
      [] n.k = "MapLiteral" ->
            LET m == NewMap(st)
            IN  MapLiteralLoop(IF st.oracle = "fwd" THEN n.Pairs ELSE Reverse(n.Pairs),
                               1, env, m.st, m.v.v)
      [] n.k = "IndexExpr" ->
            LET index == Evaluate(n.Index, env, st)
                arrMap == Evaluate(n.Collection, env, index.st)
            IN  IF index.ok # "ok" THEN index
                ELSE IF arrMap.ok # "ok" THEN arrMap
                ELSE IF arrMap.v.t = "map"
                THEN IF ~Hashable(index.v) THEN Abort("panic", arrMap.st)
                     ELSE Ok(MapLoad(arrMap.st, arrMap.v.v, index.v), arrMap.st)
                ELSE IF arrMap.v.t # "array" \/ index.v.t # "int"
                THEN Abort("panic", arrMap.st)
                ELSE IF index.v.v < 0
                        \/ index.v.v >= Len(arrMap.st.heap[arrMap.v.v].elems)
                THEN Abort("panic", arrMap.st)
                ELSE Ok(arrMap.st.heap[arrMap.v.v].elems[index.v.v + 1], arrMap.st)
      [] n.k = "PrintStmt" ->
            LET args == evalExpressions(n.Args, 1, env, st, <<>>)
            IN  IF args.ok # "ok" THEN args
                ELSE Ok(Nil, [args.st EXCEPT !.out =
                                 Append(@, [args |-> args.v, nl |-> n.NewLine])])
      [] n.k = "FunctionLiteral" ->
            Ok(FuncV(n, env), SetFunction(st, env, n.Name, FuncV(n, env)))
      [] n.k = "CallExpr" ->
            LET fn == Evaluate(n.Function, env, st)
                args == evalExpressions(n.Args, 1, env, fn.st, <<>>)
            IN  IF fn.ok # "ok" THEN fn
                ELSE IF fn.v.t # "func" THEN Abort("panic", fn.st)
                ELSE IF args.ok # "ok" THEN args
                ELSE applyFunction(fn.v.v, args.v, TRUE, args.st)
      [] n.k = "ForStmt" ->
            LET subject == Evaluate(n.Target, env, st)
                fn == [fn |-> FunctionLiteral(<<>>,
                                  IF IsNilNode(n.Value) THEN <<n.Key>>
                                  ELSE <<n.Key, n.Value>>, n.Body),
                       env |-> env]
                s1 == subject.st
                r == CASE subject.v.t = "string" ->
                            ForLoop(fn, StringRunes(subject.v.v), 1, s1, 0)
                       [] subject.v.t = "map" ->
                            ForLoop(fn, [i \in 1..Len(MapOrder(s1, subject.v.v)) |->
                                           IF IsNilNode(n.Value)
                                           THEN <<MapOrder(s1, subject.v.v)[i].key>>
                                           ELSE <<MapOrder(s1, subject.v.v)[i].key,
                                                  MapOrder(s1, subject.v.v)[i].val>>],
                                    1, s1, 0)
                       [] subject.v.t = "array" ->
                            ForLoop(fn, s1.heap[subject.v.v].elems, 1, s1, subject.v.v)
                       [] OTHER -> Ok(Nil, s1)
            IN  IF subject.ok # "ok" THEN subject ELSE r
      [] n.k = "RangeExpr" ->
            LET from == Evaluate(n.From, env, st)
                to == Evaluate(n.To, env, from.st)
                stp == IF IsNilNode(n.Step) THEN Ok(IntV(1), to.st)
                       ELSE Evaluate(n.Step, env, to.st)
                step == stp.v.v
                down == IF step > 0 THEN step * (-1) ELSE step
            IN  IF from.ok # "ok" THEN from
                ELSE IF from.v.t # "int" THEN Abort("panic", from.st)
                ELSE IF to.ok # "ok" THEN to
                ELSE IF to.v.t # "int" THEN Abort("panic", to.st)
                ELSE IF stp.ok # "ok" THEN stp
                ELSE IF stp.v.t # "int" THEN Abort("panic", stp.st)
                ELSE IF from.v.v < to.v.v
                THEN IF step <= 0 THEN Abort("loop", stp.st)
                     ELSE NewArray(stp.st, RangeUp(from.v.v, to.v.v, step, <<>>))
                ELSE IF down = 0 THEN Abort("loop", stp.st)
                ELSE NewArray(stp.st, RangeDown(from.v.v, to.v.v, down, <<>>))
      [] n.k = "SwapStmt" ->
            LET t == Evaluate(n.A, env, st)
                b == Evaluate(n.B, env, t.st)
                w1 == SetVariable(n.A, b.v, env, b.st)
                w2 == SetVariable(n.B, t.v, env, w1.st)
            IN  IF t.ok # "ok" THEN t
                ELSE IF b.ok # "ok" THEN b
                ELSE IF w1.ok # "ok" THEN w1
                ELSE w2
      [] n.k = "ImportStmt" ->
            LET t == Evaluate(n.File, env, st)
            IN  IF t.ok # "ok" THEN t
                ELSE IF t.v.t # "string" THEN Abort("panic", t.st)
                ELSE IF t.v.v \notin DOMAIN t.st.files THEN Abort("fatal", t.st)
                ELSE ImportNodes(t.st.files[t.v.v], env, t.st)
      [] n.k = "InputStmt" ->
            LET prompt == Evaluate(n.Prompt, env, st)
                s1 == [prompt.st EXCEPT !.out = Append(@, [args |-> <<prompt.v>>, nl |-> FALSE])]
            IN  IF prompt.ok # "ok" THEN prompt
                ELSE IF Len(s1.stdin) = 0 THEN Ok(StrV(<<>>), s1)
                ELSE Ok(StrV(Append(Head(s1.stdin), "\n")), [s1 EXCEPT !.stdin = Tail(@)])
      [] n.k = "LengthExpr" ->
            LET v == Evaluate(n.Target, env, st)
            IN  IF v.ok # "ok" THEN v
                ELSE CASE v.v.t = "string" -> Ok(IntV(Len(v.v.v)), v.st)
                       [] v.v.t = "map" -> Ok(IntV(Len(v.st.heap[v.v.v].entries)), v.st)
                       [] v.v.t = "array" -> Ok(IntV(Len(v.st.heap[v.v.v].elems)), v.st)
                       [] OTHER -> Ok(Nil, v.st)

(* ImportStmt.Evaluate's EvaluateNodes over the nodes of the imported file *)
ImportNodes(f, env, st) ==
    LET r == EvaluateNodes(f.nodes, 1, env, st, Nil)
    IN  IF r.ok # "ok" THEN r
        ELSE IF f.how # "ok" THEN Abort(f.how, r.st)
        ELSE Ok(Nil, r.st)

(* EvaluateNodes, evaluator.go:545-551 *)
EvaluateNodes(nodes, i, env, st, last) ==
    IF i > Len(nodes) THEN Ok(last, st)
    ELSE LET r == Evaluate(nodes[i], env, st)
         IN  IF r.ok # "ok" THEN r ELSE EvaluateNodes(nodes, i + 1, env, r.st, r.v)

-----------------------------------------------------------------------------
(* The Scope evaluator (Node.Eval), over the same trees: Lexeme.Text is the *)
(* Name of an IdentifierNode and the Op of an operator node.                *)

(* evalIntBinary; an operation with no case ends in log.Fatalf: FatalV *)
FatalV == [t |-> "fatal", v |-> 0]

evalCompare(op, lt, eq) ==
    CASE op = opGT -> BoolV(~lt /\ ~eq)
      [] op = opGE -> BoolV(~lt)
      [] op = opLT -> BoolV(lt)
      [] op = opLE -> BoolV(lt \/ eq)
      [] op = opEQ -> BoolV(eq)
      [] op = opNE -> BoolV(~eq)
      [] OTHER -> FatalV

evalFloatOp(l, r, op) ==
    CASE op = opAdd -> FloatV(FAdd(l, r))
      [] op = opSub -> FloatV(FSub(l, r))
      [] op = opMul -> FloatV(FMul(l, r))
      [] op = opDiv -> FloatV(FDiv(l, r))
      [] op = opGT -> BoolV(FLess(r, l))
      [] op = opGE -> BoolV(FLess(r, l) \/ FEq(l, r))
      [] op = opLT -> BoolV(FLess(l, r))
      [] op = opLE -> BoolV(FLess(l, r) \/ FEq(l, r))
      [] op = opEQ -> BoolV(FEq(l, r))
      [] op = opNE -> BoolV(~FEq(l, r))
      [] OTHER -> FatalV

evalIntBinary(l, r, op) ==
    CASE r.t = "int" ->
            CASE op = opAdd -> IntV(l + r.v)
              [] op = opSub -> IntV(l - r.v)
              [] op = opMul -> IntV(l * r.v)
              [] op = opDiv -> IF r.v = 0 THEN PanicV ELSE IntV(GoDiv(l, r.v))
              [] OTHER -> evalCompare(op, l < r.v, l = r.v)
      [] r.t = "float" -> evalFloatOp(ToFloat(l), r.v, op)
      [] OTHER -> FatalV

evalFloatBinary(l, r, op) ==
    CASE r.t = "int" -> evalFloatOp(l, ToFloat(r.v), op)
      [] r.t = "float" -> evalFloatOp(l, r.v, op)
      [] OTHER -> FatalV

evalStringBinary(l, r, op) ==
    IF op # opAdd THEN FatalV
    ELSE CASE r.t = "string" -> StrV(l \o r.v)
           [] r.t = "int" -> StrV(l \o Itoa(r.v))
           [] r.t = "float" -> StrV(l \o FormatFloat(r.v))
           [] OTHER -> FatalV

evalBoolBinary(l, r, op) ==
    IF r.t # "bool" THEN FatalV
    ELSE CASE op = opEQ -> BoolV(l = r.v)
           [] op = opNE -> BoolV(l # r.v)
           [] op = opOr -> BoolV(l \/ r.v)
           [] op = opAnd -> BoolV(l /\ r.v)
           [] OTHER -> FatalV

(* BinaryOpNode.Eval's dispatch on the left operand *)
BinaryOpValue(l, r, op) ==
    CASE l.t = "int" -> evalIntBinary(l.v, r, op)
      [] l.t = "float" -> evalFloatBinary(l.v, r, op)
      [] l.t = "string" -> evalStringBinary(l.v, r, op)
      [] l.t = "bool" -> evalBoolBinary(l.v, r, op)
      [] OTHER -> FatalV

(* UnaryOpNode.Eval *)
UnaryOpValue(op, v) ==
    CASE op = opSub /\ v.t = "int" -> IntV(-(v.v))
      [] op = opSub /\ v.t = "float" -> FloatV([num |-> -(v.v.num), den |-> v.v.den])
      [] op = opNot /\ v.t = "bool" -> BoolV(~v.v)
      [] OTHER -> FatalV

(* the outcome of a computed value that may be a panic or a fatal marker *)
Outcome(v, st) ==
    IF v.t \in {"panic", "fatal"} THEN Abort(v.t, st) ELSE Ok(v, st)

(* n.Scope = s on the *FunctionNode fn, and reading fn.Scope *)
SetFnScope(st, fn, s) ==
    IF \E i \in 1..Len(st.fnScope) : st.fnScope[i].fn = fn
    THEN [st EXCEPT !.fnScope = [i \in 1..Len(@) |->
             IF @[i].fn = fn THEN [fn |-> fn, scope |-> s] ELSE @[i]]]
    ELSE [st EXCEPT !.fnScope = Append(@, [fn |-> fn, scope |-> s])]

FnScope(st, f) ==
    IF f.env # 0 THEN f.env
    ELSE st.fnScope[CHOOSE i \in 1..Len(st.fnScope) : st.fnScope[i].fn = f.fn].scope

RECURSIVE Eval(_, _, _)
RECURSIVE evalArgs(_, _, _, _, _)
RECURSIVE BlockNodeLoop(_, _, _, _, _)
RECURSIVE Scope_applyFunction(_, _, _, _)
RECURSIVE Scope_ForLoop(_, _, _, _, _)
RECURSIVE MapNodeLoop(_, _, _, _, _)
RECURSIVE Scope_Evaluate(_, _, _, _, _)
RECURSIVE Scope_ImportNodes(_, _, _)

(* evalArgs, repl.go:9-15 *)
evalArgs(nodes, i, s, st, res) ==
    IF i > Len(nodes) THEN Ok(res, st)
    ELSE LET r == Eval(nodes[i], s, st)
         IN  IF r.ok # "ok" THEN r
             ELSE evalArgs(nodes, i + 1, s, r.st, Append(res, r.v))

(* BlockNode.Eval *)
BlockNodeLoop(stmts, i, s, st, last) ==
    IF i > Len(stmts) THEN Ok(last, st)
    ELSE LET r == Eval(stmts[i], s, st)
         IN  IF r.ok # "ok" THEN r
             ELSE IF stmts[i].k \in {"IfStmt", "ReturnStmt"} THEN r
             ELSE BlockNodeLoop(stmts, i + 1, s, r.st, r.v)

(* applyFunction, repl.go:17-26 *)
Scope_applyFunction(fn, args, newScope, st) ==
    LET st1 == IF newScope THEN CreateEnvironment(st, FnScope(st, fn)) ELSE st
        scope == IF newScope THEN Len(st1.scopes) ELSE FnScope(st, fn)
        np == Len(fn.fn.Params)
        bound == [st1 EXCEPT !.scopes[scope].variables =
                     [x \in {fn.fn.Params[i].Lexeme.Text : i \in 1..np} |->
                        args[CHOOSE i \in 1..np :
                               /\ fn.fn.Params[i].Lexeme.Text = x
                               /\ \A j \in (i + 1)..np : fn.fn.Params[j].Lexeme.Text # x]]
                     @@ @,
                   !.depth = @ + 1]
        body == Eval(fn.fn.Body, scope, bound)
    IN  IF Len(args) < np THEN Abort("panic", st1)
        ELSE IF st.depth >= MaxDepth THEN Abort("overflow", st1)
        ELSE IF body.ok # "ok" THEN body
        ELSE Ok(body.v, [body.st EXCEPT !.depth = @ - 1])

(* the loops of ForNode.Eval *)
Scope_ForLoop(fn, items, i, st, arr) ==
    IF i > Len(items) THEN Ok(Nil, st)
    ELSE LET args == IF arr = 0 THEN items[i]
                     ELSE IF Len(fn.fn.Params) = 2
                          THEN <<IntV(i - 1), st.heap[arr].elems[i]>>
                          ELSE <<st.heap[arr].elems[i]>>
             r == Scope_applyFunction(fn, args, FALSE, st)
         IN  IF r.ok # "ok" THEN r ELSE Scope_ForLoop(fn, items, i + 1, r.st, arr)

(* MapNode.Eval's loop *)
MapNodeLoop(pairs, i, s, st, id) ==
    IF i > Len(pairs) THEN Ok(MapV(id), st)
    ELSE LET key == Eval(pairs[i].key, s, st)
             val == Eval(pairs[i].val, s, key.st)
         IN  IF key.ok # "ok" THEN key
             ELSE IF val.ok # "ok" THEN val
             ELSE IF ~Hashable(key.v) THEN Abort("panic", val.st)
             ELSE MapNodeLoop(pairs, i + 1, s, MapStore(val.st, id, key.v, val.v), id)

(* the assignment to a target shared by VariableNode.Eval (part_003:124-140) *)
(* and SwapNode.Eval's setValue (part_003:468-486)                          *)
setValue(target, value, s, st) ==
    CASE target.k = "Ident" -> Ok(Nil, BindVariable(st, s, target.Lexeme.Text, value))
      [] target.k = "IndexExpr" ->
            LET subject == Eval(target.Collection, s, st)
                index == Eval(target.Index, s, subject.st)
            IN  IF subject.ok # "ok" THEN subject
                ELSE IF index.ok # "ok" THEN index
                ELSE IF subject.v.t = "array"
                THEN IF index.v.t # "int" THEN Abort("panic", index.st)
                     ELSE IF index.v.v < 0
                             \/ index.v.v >= Len(index.st.heap[subject.v.v].elems)
                     THEN Abort("panic", index.st)
                     ELSE Ok(Nil, ArrayStore(index.st, subject.v.v, index.v.v, value))
                ELSE IF subject.v.t = "map"
                THEN IF ~Hashable(index.v) THEN Abort("panic", index.st)
                     ELSE Ok(Nil, MapStore(index.st, subject.v.v, index.v, value))
                ELSE Abort("fatal", index.st)
      [] OTHER -> Abort("fatal", st)

(* Node.Eval, one case per node type *)
Eval(n, s, st) ==
    CASE n.k = "nil" -> Abort("panic", st)
      [] n.k = "IntegerLiteral" -> Ok(IntV(n.Value), st)
      [] n.k = "FloatLiteral" -> Ok(FloatV(n.Value), st)
      [] n.k = "BooleanLiteral" -> Ok(BoolV(n.Value), st)
      [] n.k = "StringLiteral" -> Ok(StrV(n.Value), st)
      [] n.k = "ReturnStmt" -> Eval(n.Expr, s, st)
      [] n.k = "Ident" ->
            LET f == GetFunction(st, s, n.Lexeme.Text)
                v == GetVariable(st, s, n.Lexeme.Text)
            IN  IF f.ok THEN Ok(f.v, st)
                ELSE IF v.ok THEN Ok(v.v, st)
                ELSE Abort("fatal", st)
      [] n.k = "VarAssign" ->
            LET value == Eval(n.Value, s, st)
                w == setValue(n.Name, value.v, s, value.st)
            IN  IF value.ok # "ok" THEN value
                ELSE IF w.ok # "ok" THEN w
                ELSE Ok(value.v, w.st)
      [] n.k = "PrefixOp" ->
            LET v == Eval(n.Expr, s, st)
            IN  IF v.ok # "ok" THEN v ELSE Outcome(UnaryOpValue(n.Lexeme.Text, v.v), v.st)
      [] n.k = "InfixOp" ->
            LET l == Eval(n.Left, s, st)
                r == Eval(n.Right, s, l.st)
            IN  IF l.ok # "ok" THEN l
                ELSE IF r.ok # "ok" THEN r
                ELSE Outcome(BinaryOpValue(l.v, r.v, n.Lexeme.Text), r.st)
      [] n.k = "BlockStmt" -> BlockNodeLoop(n.Stmts, 1, s, st, Nil)
      [] n.k = "IfStmt" ->
            LET c == Eval(n.Condition, s, st)
            IN  IF c.ok # "ok" THEN c
                ELSE IF c.v.t # "bool" THEN Abort("panic", c.st)
                ELSE IF c.v.v THEN Eval(n.Then, s, c.st)
                ELSE IF ~IsNilNode(n.Else) THEN Eval(n.Else, s, c.st)
                ELSE Ok(Nil, c.st)
      [] n.k = "ArrayLiteral" ->
            LET es == evalArgs(n.Elements, 1, s, st, <<>>)
            IN  IF es.ok # "ok" THEN es ELSE NewArray(es.st, es.v)
      [] n.k = "MapLiteral" ->
            LET m == NewMap(st)
            IN  MapNodeLoop(IF st.oracle = "fwd" THEN n.Pairs ELSE Reverse(n.Pairs),
                            1, s, m.st, m.v.v)
      [] n.k = "IndexExpr" ->
            LET subject == Eval(n.Collection, s, st)
                index == Eval(n.Index, s, subject.st)
            IN  IF subject.ok # "ok" THEN subject
                ELSE IF index.ok # "ok" THEN index
                ELSE IF subject.v.t = "array"
                THEN IF index.v.t # "int" THEN Abort("panic", index.st)
                     ELSE IF index.v.v < 0
                             \/ index.v.v >= Len(index.st.heap[subject.v.v].elems)
                     THEN Abort("panic", index.st)
                     ELSE Ok(index.st.heap[subject.v.v].elems[index.v.v + 1], index.st)
                ELSE IF subject.v.t = "map"
                THEN IF ~Hashable(index.v) THEN Abort("panic", index.st)
                     ELSE Ok(MapLoad(index.st, subject.v.v, index.v), index.st)
                ELSE Abort("fatal", index.st)
      [] n.k = "PrintStmt" ->
            LET args == evalArgs(n.Args, 1, s, st, <<>>)
            IN  IF args.ok # "ok" THEN args
                ELSE Ok(Nil, [args.st EXCEPT !.out =
                                 Append(@, [args |-> args.v, nl |-> n.NewLine])])
      [] n.k = "FunctionLiteral" ->
            LET f == FuncV(n, 0)
            IN  Ok(f, SetFunction(SetFnScope(st, n, s), s, n.Name, f))
      [] n.k = "CallExpr" ->
            LET fn == Eval(n.Function, s, st)
                args == evalArgs(n.Args, 1, s, fn.st, <<>>)
            IN  IF fn.ok # "ok" THEN fn
                ELSE IF fn.v.t # "func" THEN Abort("fatal", fn.st)
                ELSE IF args.ok # "ok" THEN args
                ELSE Scope_applyFunction(fn.v.v, args.v, TRUE, args.st)
      [] n.k = "ForStmt" ->
            LET subject == Eval(n.Target, s, st)
                fn == [fn |-> FunctionLiteral(<<>>,
                                  IF IsNilNode(n.Value) THEN <<n.Key>>
                                  ELSE <<n.Key, n.Value>>, n.Body),
                       env |-> s]
                s1 == subject.st
                r == CASE subject.v.t = "string" ->
                            Scope_ForLoop(fn, StringRunes(subject.v.v), 1, s1, 0)
                       [] subject.v.t = "map" ->
                            Scope_ForLoop(fn, [i \in 1..Len(MapOrder(s1, subject.v.v)) |->
                                           IF IsNilNode(n.Value)
                                           THEN <<MapOrder(s1, subject.v.v)[i].key>>
                                           ELSE <<MapOrder(s1, subject.v.v)[i].key,
                                                  MapOrder(s1, subject.v.v)[i].val>>],
                                    1, s1, 0)
                       [] subject.v.t = "array" ->
                            Scope_ForLoop(fn, s1.heap[subject.v.v].elems, 1, s1, subject.v.v)
                       [] OTHER -> Ok(Nil, s1)
            IN  IF subject.ok # "ok" THEN subject ELSE r
      [] n.k = "RangeExpr" ->
            LET from == Eval(n.From, s, st)
                to == Eval(n.To, s, from.st)
                stp == IF IsNilNode(n.Step) THEN Ok(IntV(1), to.st)
                       ELSE Eval(n.Step, s, to.st)
                step == stp.v.v
                down == IF step > 0 THEN -step ELSE step
            IN  IF from.ok # "ok" THEN from
                ELSE IF from.v.t # "int" THEN Abort("panic", from.st)
                ELSE IF to.ok # "ok" THEN to
                ELSE IF to.v.t # "int" THEN Abort("panic", to.st)
                ELSE IF stp.ok # "ok" THEN stp
                ELSE IF stp.v.t # "int" THEN Abort("panic", stp.st)
                ELSE IF from.v.v <= to.v.v
                THEN IF step <= 0 THEN Abort("loop", stp.st)
                     ELSE NewArray(stp.st, RangeUp(from.v.v, to.v.v, step, <<>>))
                ELSE IF down = 0 THEN Abort("loop", stp.st)
                ELSE NewArray(stp.st, RangeDown(from.v.v, to.v.v, down, <<>>))
      [] n.k = "SwapStmt" ->
            LET leftVal == Eval(n.A, s, st)
                rightVal == Eval(n.B, s, leftVal.st)
                w1 == setValue(n.A, rightVal.v, s, rightVal.st)
                w2 == setValue(n.B, leftVal.v, s, w1.st)
            IN  IF leftVal.ok # "ok" THEN leftVal
                ELSE IF rightVal.ok # "ok" THEN rightVal
                ELSE IF w1.ok # "ok" THEN w1
                ELSE w2
      [] n.k = "ImportStmt" ->
            LET t == Eval(n.File, s, st)
            IN  IF t.ok # "ok" THEN t
                ELSE IF t.v.t # "string" THEN Abort("panic", t.st)
                ELSE IF t.v.v \notin DOMAIN t.st.files THEN Abort("fatal", t.st)
                ELSE Scope_ImportNodes(t.st.files[t.v.v], s, t.st)
      [] n.k = "InputStmt" ->
            LET prompt == Eval(n.Prompt, s, st)
                s1 == [prompt.st EXCEPT !.out = Append(@, [args |-> <<prompt.v>>, nl |-> FALSE])]
            IN  IF prompt.ok # "ok" THEN prompt
                ELSE IF Len(s1.stdin) = 0 THEN Ok(StrV(<<>>), s1)
                ELSE Ok(StrV(Head(s1.stdin)), [s1 EXCEPT !.stdin = Tail(@)])
      [] n.k = "LengthExpr" ->
            LET v == Eval(n.Target, s, st)
            IN  IF v.ok # "ok" THEN v
                ELSE CASE v.v.t = "string" -> Ok(IntV(Len(v.v.v)), v.st)
                       [] v.v.t = "map" -> Ok(IntV(Len(v.st.heap[v.v.v].entries)), v.st)
                       [] v.v.t = "array" -> Ok(IntV(Len(v.st.heap[v.v.v].elems)), v.st)
                       [] OTHER -> Abort("fatal", v.st)

(* ImportNode.Eval's Evaluate over the nodes of the imported file *)
Scope_ImportNodes(f, s, st) ==
    LET r == Scope_Evaluate(f.nodes, 1, s, st, Nil)
    IN  IF r.ok # "ok" THEN r
        ELSE IF f.how # "ok" THEN Abort(f.how, r.st)
        ELSE Ok(Nil, r.st)

(* Evaluate, repl.go:28-35 *)
Scope_Evaluate(nodes, i, s, st, last) ==
    IF i > Len(nodes) THEN Ok(last, st)
    ELSE LET r == Eval(nodes[i], s, st)
         IN  IF r.ok # "ok" THEN r ELSE Scope_Evaluate(nodes, i + 1, s, r.st, r.v)

-----------------------------------------------------------------------------
(* The scripts the pipeline is run on *)

MaxOperand == 3
MaxN == 5
MaxSpins == 2

Digit(n) == Digits[n + 1]
Operands == {Digit(n) : n \in 1..MaxOperand}
ArithOps == {"+", "-", "*", "/"}

(* integer expressions: a o b o c, (a o b) o c, a o (b o c), a o b o c o d *)
ArithSources ==
    {<<a, o1, b, o2, c>> : a \in Operands, o1 \in ArithOps, b \in Operands,
                           o2 \in ArithOps, c \in Operands}
    \cup {<<"(", a, o1, b, ")", o2, c>> : a \in Operands, o1 \in ArithOps,
                           b \in Operands, o2 \in ArithOps, c \in Operands}
    \cup {<<a, o1, "(", b, o2, c, ")">> : a \in Operands, o1 \in ArithOps,
                           b \in Operands, o2 \in ArithOps, c \in Operands}
    \cup {<<a, o1, b, o2, c, o3, d>> : a \in Operands, o1 \in ArithOps, b \in Operands,
                           o2 \in ArithOps, c \in Operands, o3 \in ArithOps,
                           d \in Operands}

(* README.md:22-31, the recursive function of the examples, and a call of it *)
FactorialDef == <<"f", "n", " ", "f", "(", "n", ")", " ", "{", " ", "i", "f", " ", "n", " ", "<", "=", " ", "1", " ", "{", " ", "1", " ", "}", " ", "n", " ", "*", " ", "f", "(", "n", "-", "1", ")", " ", "}">>
FactorialSources == {FactorialDef \o <<" ", "f", "(", Digit(n), ")">> : n \in 1..MaxN}

(* constructs that open a block or a map, the statements before and inside  *)
(* them, and whether the closing brace is written                           *)
Openers == {<<"m", "=", "{">>, <<"f", "n", " ", "f", "(", ")", "{">>, <<"i", "f", " ", "t", "r", "u", "e", "{">>, <<"f", "o", "r", " ", "x", " ", "i", "n", " ", "y", "{">>}
Leading == {<<>>, <<"z", "=", "1", " ">>}
Bodies == {<<>>, <<"1">>, <<"x", "=", "1">>}
BraceSources ==
    {l \o o \o b \o c : l \in Leading, o \in Openers, b \in Bodies, c \in {<<>>, <<"}">>}}

Programs == ArithSources \cup FactorialSources \cup BraceSources

-----------------------------------------------------------------------------
(* The run of main on a script file: CreateScanner, CreateParser and        *)
(* EvaluateNodes, the parser handing each node to the evaluator over the    *)
(* unbuffered channel astNodes.                                             *)

NoResult == [v |-> Nil, ok |-> "ok"]
NoInput == [family |-> "none"]

InitPipeline ==
    /\ src = <<>>
    /\ scanner = "idle"
    /\ lexemes = <<>>
    /\ parser = "idle"
    /\ pos = 0
    /\ rdr = 0
    /\ astNodes = <<>>
    /\ spins = 0
    /\ evaluated = 0
    /\ impl = "A"
    /\ input = NoInput
    /\ store = NewStore(<<>>, <<>>)
    /\ pre = NewStore(<<>>, <<>>)
    /\ result = NoResult
    /\ status = "idle"

(* os.ReadFile in main: the script is one of the integer expressions *)
ReadArith ==
    /\ status = "idle"
    /\ \E text \in ArithSources : src' = text
    /\ input' = [family |-> "arith"]
    /\ status' = "read"
    /\ UNCHANGED <<scanner, lexemes, parser, pos, astNodes, spins, evaluated,
                   rdr, impl, store, pre, result>>

(* os.ReadFile in main: the recursive function and a call f(n) *)
ReadFactorial ==
    /\ status = "idle"
    /\ \E n \in 1..MaxN :
          /\ src' = FactorialDef \o <<" ", "f", "(", Digit(n), ")">>
          /\ input' = [family |-> "factorial", n |-> n]
    /\ status' = "read"
    /\ UNCHANGED <<scanner, lexemes, parser, pos, astNodes, spins, evaluated,
                   rdr, impl, store, pre, result>>

(* os.ReadFile in main: a script with an opening brace, closed or not *)
ReadBrace ==
    /\ status = "idle"
    /\ \E l \in Leading, o \in Openers, b \in Bodies, c \in {<<>>, <<"}">>} :
          /\ src' = l \o o \o b \o c
          /\ input' = [family |-> "brace", closed |-> c # <<>>]
    /\ status' = "read"
    /\ UNCHANGED <<scanner, lexemes, parser, pos, astNodes, spins, evaluated,
                   rdr, impl, store, pre, result>>

(* CreateScanner and CreateParser: the scanner goroutine runs to the end of *)
(* the text (or to its log.Fatal), the analyzer reads its first two lexemes *)
Scan ==
    /\ status = "read"
    /\ LET l == CreateScanner(src)
       IN  /\ lexemes' = l.sent
           /\ scanner' = IF l.closed THEN "closed" ELSE "fatal"
           /\ status' = IF l.closed THEN "run" ELSE "fatal"
           /\ parser' = IF l.closed THEN "run" ELSE "idle"
           /\ pos' = IF l.closed THEN 1 ELSE 0
    /\ UNCHANGED <<src, astNodes, spins, evaluated, rdr, impl, input, store, pre, result>>

(* one iteration of processParsing's loop; the send on astNodes waits for   *)
(* the evaluator to have taken the node before                              *)
ParseNode ==
    /\ status = "run"
    /\ parser = "run"
    /\ evaluated = Len(astNodes)
    /\ curLex(lexemes, pos).Kind # END_OF_FILE
    /\ LET r == parseExpr(lexemes, pos, LOWEST_PREC)
       IN  IF r.st = "spin"
           THEN /\ parser' = "spin"
                /\ spins' = 1
                /\ UNCHANGED <<pos, astNodes>>
           ELSE /\ astNodes' = IF IsNilNode(r.n) THEN astNodes ELSE Append(astNodes, r.n)
                /\ pos' = r.pos + 1
                /\ UNCHANGED <<parser, spins>>
    /\ UNCHANGED <<src, scanner, lexemes, evaluated, rdr, impl, input, store,
                   pre, result, status>>

(* processParsing leaves its loop at END_OF_FILE and closes astNodes *)
ParseEnd ==
    /\ status = "run"
    /\ parser = "run"
    /\ evaluated = Len(astNodes)
    /\ curLex(lexemes, pos).Kind = END_OF_FILE
    /\ parser' = "closed"
    /\ UNCHANGED <<src, scanner, lexemes, pos, astNodes, spins, evaluated,
                   rdr, impl, input, store, pre, result, status>>

(* one more iteration of a parse loop whose exit token never comes *)
ParseSpin ==
    /\ status = "run"
    /\ parser = "spin"
    /\ spins < MaxSpins
    /\ spins' = spins + 1
    /\ UNCHANGED <<src, scanner, lexemes, parser, pos, astNodes, evaluated,
                   rdr, impl, input, store, pre, result, status>>

(* one iteration of EvaluateNodes' loop *)
EvalNode ==
    /\ impl = "A"
    /\ status = "run"
    /\ evaluated < Len(astNodes)
    /\ LET r == Evaluate(astNodes[evaluated + 1], 1, store)
       IN  /\ store' = r.st
           /\ pre' = store
           /\ result' = [v |-> r.v, ok |-> r.ok]
           /\ status' = IF r.ok = "ok" THEN "run" ELSE r.ok
    /\ evaluated' = evaluated + 1
    /\ UNCHANGED <<src, scanner, lexemes, parser, pos, astNodes, spins,
                   rdr, impl, input>>

(* EvaluateNodes finds astNodes closed and returns; main returns *)
EvalEnd ==
    /\ status = "run"
    /\ parser = "closed"
    /\ evaluated = Len(astNodes)
    /\ status' = "done"
    /\ UNCHANGED <<src, scanner, lexemes, parser, pos, astNodes, spins, evaluated,
                   rdr, impl, input, store, pre, result>>

NextPipeline ==
    \/ ReadArith
    \/ ReadFactorial
    \/ ReadBrace
    \/ Scan
    \/ ParseNode
    \/ ParseEnd
    \/ ParseSpin
    \/ EvalNode
    \/ EvalEnd

SpecPipeline == InitPipeline /\ [][NextPipeline]_vars

-----------------------------------------------------------------------------
(* The value of an integer expression by the conventional reading of its    *)
(* text: a factor is a digit or a parenthesised expression, a term is a     *)
(* left-to-right chain of factors under * and /, an expression a            *)
(* left-to-right chain of terms under + and -.  def is FALSE when a         *)
(* division by zero makes the value undefined.                              *)

Quot(a, b) ==
    CHOOSE q \in -Abs(a)..Abs(a) : Abs(a - q * b) < Abs(b) /\ (a - q * b) * a >= 0

RECURSIVE RefExpr(_, _)
RECURSIVE RefTermLoop(_, _)
RECURSIVE RefExprLoop(_, _)

RefFactor(s, i) ==
    IF s[i] = "("
    THEN LET e == RefExpr(s, i + 1) IN [v |-> e.v, next |-> e.next + 1, def |-> e.def]
    ELSE [v |-> DigitVal(s[i]), next |-> i + 1, def |-> TRUE]

RefTermLoop(s, acc) ==
    IF acc.next <= Len(s) /\ s[acc.next] \in {"*", "/"}
    THEN LET f == RefFactor(s, acc.next + 1)
             ok == acc.def /\ f.def /\ (s[acc.next] = "/" => f.v # 0)
         IN  RefTermLoop(s, [v |-> IF ~ok THEN 0
                                   ELSE IF s[acc.next] = "*" THEN acc.v * f.v
                                   ELSE Quot(acc.v, f.v),
                             next |-> f.next, def |-> ok])
    ELSE acc

RefTerm(s, i) == RefTermLoop(s, RefFactor(s, i))

RefExprLoop(s, acc) ==
    IF acc.next <= Len(s) /\ s[acc.next] \in {"+", "-"}
    THEN LET t == RefTerm(s, acc.next + 1)
         IN  RefExprLoop(s, [v |-> IF s[acc.next] = "+" THEN acc.v + t.v ELSE acc.v - t.v,
                             next |-> t.next, def |-> acc.def /\ t.def])
    ELSE acc

RefExpr(s, i) == RefExprLoop(s, RefTerm(s, i))

Ended == status \in {"done", "panic", "fatal", "loop", "overflow"}

(* C1: in the CreateScanner -> CreateParser -> EvaluateNodes pipeline an    *)
(* integer expression over +, -, *, / and parentheses is delivered as one    *)
(* node and evaluates to its conventional value: * and / bind tighter than    *)
(* + and -, parentheses override, equal precedence associates to the left;   *)
(* the run panics exactly when that value is undefined by a division by 0.   *)
PrecedenceIsConventional ==
    (input.family = "arith" /\ Ended) =>
        LET ref == RefExpr(src, 1)
        IN  IF ref.def
            THEN status = "done" /\ Len(astNodes) = 1 /\ VEq(result.v, IntV(ref.v))
            ELSE status = "panic"

(* 1+2*3 has run to its end with the value 7 *)
PrecedenceWitness ==
    /\ status = "done"
    /\ src = <<"1", "+", "2", "*", "3">>
    /\ VEq(result.v, IntV(7))

RECURSIVE Factorial(_)
Factorial(n) == IF n <= 1 THEN 1 ELSE n * Factorial(n - 1)

(* C2: with f defined as fn f(n) { if n <= 1 { 1 } n * f(n-1) }, the run of *)
(* f(n) for 1 <= n <= MaxN ends normally and its value is n!.               *)
FactorialIsComputed ==
    (input.family = "factorial" /\ Ended) =>
        status = "done" /\ VEq(result.v, IntV(Factorial(input.n)))

(* f(5) has run to its end with the value 120 *)
FactorialWitness ==
    /\ input.family = "factorial"
    /\ status = "done"
    /\ input.n = 5
    /\ VEq(result.v, IntV(120))

(* C9: for a script with a { that has no matching }, the parser does not    *)
(* keep looping once the lexemes have reached END_OF_FILE (the run ends     *)
(* with a syntax error instead).                                            *)
UnmatchedBraceTerminates ==
    (input.family = "brace" /\ ~input.closed) => parser # "spin"

-----------------------------------------------------------------------------
(* Runs of either evaluator on short scripts.  The Scope evaluator is given *)
(* the trees the analyzer builds from the text.                             *)

MaxRange == 3
MaxStep == 3

(* a one-digit integer as it is written in a script *)
Numeral(n) == IF n < 0 THEN <<"-", Digit(-n)>> ELSE <<Digit(n)>>

InitEval ==
    /\ src = <<>>
    /\ scanner = "idle"
    /\ lexemes = <<>>
    /\ parser = "idle"
    /\ pos = 0
    /\ rdr = 0
    /\ astNodes = <<>>
    /\ spins = 0
    /\ evaluated = 0
    /\ impl \in {"A", "B"}
    /\ input = NoInput
    /\ store = NewStore(<<>>, <<>>)
    /\ pre = NewStore(<<>>, <<>>)
    /\ result = NoResult
    /\ status = "idle"

(* the script is read: its text and the values it was written from *)
ReadFile ==
    /\ status' = "read"
    /\ UNCHANGED <<scanner, lexemes, parser, pos, astNodes, spins, evaluated,
                   rdr, impl, store, pre, result>>

(* a = <a>  b = <b>  a..b  or  a..b:<s> *)
ReadRange ==
    \E a \in -MaxRange..MaxRange, b \in -MaxRange..MaxRange,
       s \in -MaxStep..MaxStep, written \in BOOLEAN :
        /\ status = "idle"
        /\ ~written => s = 1
        /\ src' = <<"a", "=">> \o Numeral(a) \o <<" ", "b", "=">> \o Numeral(b) \o <<" ", "a", ".", ".", "b">>
                  \o (IF written THEN <<":">> \o Numeral(s) ELSE <<>>)
        /\ input' = [family |-> "range", a |-> a, b |-> b, s |-> s, written |-> written]
        /\ ReadFile

(* one iteration of the loop of Evaluate (repl.go) *)
Scope_EvalNode ==
    /\ impl = "B"
    /\ status = "run"
    /\ evaluated < Len(astNodes)
    /\ LET r == Eval(astNodes[evaluated + 1], 1, store)
       IN  /\ store' = r.st
           /\ pre' = store
           /\ result' = [v |-> r.v, ok |-> r.ok]
           /\ status' = IF r.ok = "ok" THEN "run" ELSE r.ok
    /\ evaluated' = evaluated + 1
    /\ UNCHANGED <<src, scanner, lexemes, parser, pos, astNodes, spins,
                   rdr, impl, input>>

(* the places a swap can name, as written *)
Targets == {<<"x">>, <<"y">>, <<"i">>, <<"a", "[", "0", "]">>, <<"a", "[", "1", "]">>, <<"a", "[", "i", "]">>, <<"m", "[", "\"", "k", "\"", "]">>}

(* x=5 y=6 i=<i> a=[<p>,<q>] m={"k":8} swap(<A>,<B>) *)
ReadSwap ==
    \E i \in 0..1, p \in 0..1, q \in 0..1, A \in Targets, B \in Targets :
        /\ status = "idle"
        /\ src' = <<"x", "=", "5", " ", "y", "=", "6", " ", "i", "=">>
             \o Numeral(i)
             \o <<" ", "a", "=", "[">>
             \o Numeral(p)
             \o <<",">>
             \o Numeral(q)
             \o <<"]", " ", "m", "=">>
             \o <<"{", "\"", "k", "\"", ":", "8", "}">>
             \o <<" ", "s", "w", "a", "p", "(">>
             \o A
             \o <<",">>
             \o B
             \o <<")">>
        /\ input' = [family |-> "swap", A |-> A, B |-> B]
        /\ ReadFile

AssignedValues == {5, 9}

(* a=[<p>,<q>], then a[<i>]=<v> written at top level, in a function called *)
(* from top level, or in a function called by a function, then a[<i>]     *)
ReadIndexAssign ==
    \E p \in 0..1, q \in 0..1, i \in 0..1, v \in AssignedValues,
       via \in {"direct", "call", "nested"} :
        /\ status = "idle"
        /\ src' = CASE via = "direct" -> <<"a", "=", "[">>
                    \o Numeral(p)
                    \o <<",">>
                    \o Numeral(q)
                    \o <<"]", " ", "a", "[">>
                    \o Numeral(i)
                    \o <<"]", "=">>
                    \o Numeral(v)
                    \o <<" ", "a", "[">>
                    \o Numeral(i)
                    \o <<"]">>
               [] via = "call" -> <<"a", "=", "[">>
                    \o Numeral(p)
                    \o <<",">>
                    \o Numeral(q)
                    \o <<"]", " ", "f", "n", " ", "s", "e", "t", "(", "i", ",", "v", ")">>
                    \o <<"{", "a", "[", "i", "]", "=", "v", "}">>
                    \o <<" ", "s", "e", "t", "(">>
                    \o Numeral(i)
                    \o <<",">>
                    \o Numeral(v)
                    \o <<")", " ", "a", "[">>
                    \o Numeral(i)
                    \o <<"]">>
               [] via = "nested" -> <<"a", "=", "[">>
                    \o Numeral(p)
                    \o <<",">>
                    \o Numeral(q)
                    \o <<"]", " ", "f", "n", " ", "s", "e", "t", "(", "i", ",", "v", ")">>
                    \o <<"{", "a", "[", "i", "]", "=", "v", "}">>
                    \o <<" ", "f", "n", " ", "v", "i", "a", "(", "i", ",", "v", ")">>
                    \o <<"{", "s", "e", "t", "(", "i", ",", "v", ")", "}">>
                    \o <<" ", "v", "i", "a", "(">>
                    \o Numeral(i)
                    \o <<",">>
                    \o Numeral(v)
                    \o <<")", " ", "a", "[">>
                    \o Numeral(i)
                    \o <<"]">>
        /\ input' = [family |-> "indexassign", p |-> p, q |-> q, i |-> i, v |-> v, via |-> via]
        /\ ReadFile

(* a function reading x, with assignments to x after its definition: at    *)
(* top level, or inside the function that defines it and returns it        *)
ReadClosure ==
    \E v1 \in 1..3, v2 \in 1..3, v3 \in 1..3, kind \in {"global", "factory"} :
        /\ status = "idle"
        /\ src' = IF kind = "global"
             THEN <<"x", "=">>
                  \o Numeral(v1)
                  \o <<" ", "f", "n", " ", "g", "(", ")">>
                  \o <<"{", "x", "}">>
                  \o <<" ", "x", "=">>
                  \o Numeral(v2)
                  \o <<" ", "r", "=", "g", "(", ")", " ", "x", "=">>
                  \o Numeral(v3)
                  \o <<" ", "g", "(", ")">>
             ELSE <<"f", "n", " ", "m", "k", "(", ")">>
                  \o <<"{", "x", "=">>
                  \o Numeral(v1)
                  \o <<" ", "r", "=", "f", "n", " ", "g", "(", ")">>
                  \o <<"{", "x", "}">>
                  \o <<" ", "x", "=">>
                  \o Numeral(v2)
                  \o <<" ", "r", "}", " ", "x", "=">>
                  \o Numeral(v3)
                  \o <<" ", "m", "k", "(", ")", "(", ")">>
        /\ input' = [family |-> "closure", kind |-> kind, v1 |-> v1, v2 |-> v2, v3 |-> v3]
        /\ ReadFile

(* float literals as written, with the value each denotes *)
FloatOperands ==
    {[text |-> <<"0", ".", "5">>, num |-> 1, den |-> 2],
     [text |-> <<"1", ".", "5">>, num |-> 3, den |-> 2],
     [text |-> <<"2", ".", "0">>, num |-> 2, den |-> 1],
     [text |-> <<"2", ".", "5">>, num |-> 5, den |-> 2]}

MixedOps == {opAdd, opSub, opMul, opDiv, opLT, opLE, opGT, opGE, opEQ, opNE}

(* <i> op <f>  or  <f> op <i>, an int literal and a float literal *)
ReadMixed ==
    \E i \in 0..MaxOperand, f \in FloatOperands, op \in MixedOps, floatLeft \in BOOLEAN :
        /\ status = "idle"
        /\ src' = IF floatLeft THEN f.text \o op \o Numeral(i) ELSE Numeral(i) \o op \o f.text
        /\ input' = [family |-> "mixed", i |-> i, f |-> f, op |-> op, floatLeft |-> floatLeft]
        /\ ReadFile

(* right operands of a concatenation as written, with the text of each *)
ConcatOperands ==
    {[written |-> <<"\"", "a", "b", "\"">>, text |-> <<"a", "b">>],
     [written |-> <<"1">>, text |-> <<"1">>],
     [written |-> <<"1", "2">>, text |-> <<"1", "2">>],
     [written |-> <<"-", "3">>, text |-> <<"-", "3">>],
     [written |-> <<"1", ".", "5">>, text |-> <<"1", ".", "5">>],
     [written |-> <<"0", ".", "2", "5">>, text |-> <<"0", ".", "2", "5">>],
     [written |-> <<"2", ".", "0">>, text |-> <<"2">>],
     [written |-> <<"1", ".", "5", "0">>, text |-> <<"1", ".", "5">>],
     [written |-> <<"1", "0", ".", "5">>, text |-> <<"1", "0", ".", "5">>]}

(* s=<l> n=<r> s+n, l a string literal *)
ReadConcat ==
    \E l \in {<<>>, <<"x", "=">>}, r \in ConcatOperands :
        /\ status = "idle"
        /\ src' = <<"s", "=", "\"">> \o l \o <<"\"", " ", "n", "=">> \o r.written
                \o <<" ", "s", "+", "n">>
        /\ input' = [family |-> "concat", l |-> l, r |-> r]
        /\ ReadFile

(* statements that refer to u, which is bound nowhere *)
References == {<<"u">>,
               <<"u", "+", "1">>,
               <<"1", "+", "u">>,
               <<"y", "=", "u">>,
               <<"-", "u">>,
               <<"[", "u", "]">>,
               <<"u", "(", ")">>,
               <<"p", "r", "i", "n", "t", "l", "n", "(", "u", ")">>}

(* <reference to u> z=1 *)
ReadUndefined ==
    \E ref \in References :
        /\ status = "idle"
        /\ src' = ref \o <<" ", "z", "=", "1">>
        /\ input' = [family |-> "undefined", ref |-> ref]
        /\ ReadFile

(* x=<v1> fn f(){x=<v2>} f() x: an assignment, inside a call, to a variable *)
(* of the function's defining scope, then a read in that scope             *)
ReadAssign ==
    \E v1 \in 1..2, v2 \in 1..2, depth \in 1..2 :
        /\ status = "idle"
        /\ src' = <<"x", "=">> \o Numeral(v1)
                  \o <<" ", "f", "n", " ", "f", "(", ")", "{", "x", "=">> \o Numeral(v2) \o <<"}">>
                  \o (IF depth = 1 THEN <<" ", "f", "(", ")">> ELSE <<" ", "f", "n", " ", "g", "(", ")", "{", "f", "(", ")", "}", " ", "g", "(", ")">>)
                  \o <<" ", "x">>
        /\ input' = [family |-> "assign", depth |-> depth, v1 |-> v1, v2 |-> v2]
        /\ ReadFile

(* y=<v1> p=7 fn f(p){y*10+p} fn g(){y=<v2> q=<a> f(q)} g(): f, defined at  *)
(* top level, is called with a local of its caller g, which has its own y   *)
ReadCall ==
    \E v1 \in 1..2, v2 \in 1..2, a \in 3..4 :
        /\ status = "idle"
        /\ src' = <<"y", "=">> \o Numeral(v1)
                  \o <<" ", "p", "=", "7", " ", "f", "n", " ", "f", "(", "p", ")", "{", "y", "*", "1", "0", "+", "p", "}", " ", "f", "n", " ", "g", "(", ")", "{", "y", "=">> \o Numeral(v2)
                  \o <<" ", "q", "=">> \o Numeral(a) \o <<" ", "f", "(", "q", ")", "}", " ", "g", "(", ")">>
        /\ input' = [family |-> "call", a |-> a, v1 |-> v1, v2 |-> v2]
        /\ ReadFile

(* fn x(){5} and x=<v> in the same scope, in either order, then r=x() and   *)
(* the reference x                                                          *)
ReadNamespaces ==
    \E v \in 1..2, fnFirst \in BOOLEAN :
        /\ status = "idle"
        /\ src' = (IF fnFirst THEN <<"f", "n", " ", "x", "(", ")", "{", "5", "}", " ", "x", "=">> \o Numeral(v)
                   ELSE <<"x", "=">> \o Numeral(v) \o <<" ", "f", "n", " ", "x", "(", ")", "{", "5", "}">>)
                  \o <<" ", "r", "=", "x", "(", ")", " ", "x">>
        /\ input' = [family |-> "namespaces", fnFirst |-> fnFirst, v |-> v]
        /\ ReadFile

(* the first statement of the body of f, by kind *)
BlockFirst ==
    [iftrue |-> <<"i", "f", " ", "t", "r", "u", "e", " ", "{", "1", "}">>, iffalse |-> <<"i", "f", " ", "f", "a", "l", "s", "e", " ", "{", "1", "}">>,
     ifelse |-> <<"i", "f", " ", "f", "a", "l", "s", "e", " ", "{", "1", "}", " ", "e", "l", "s", "e", " ", "{", "2", "}">>, ret |-> <<"r", "e", "t", "u", "r", "n", " ", "1">>,
     plain |-> <<"x", "=", "1">>]

(* os.ReadFile in main: a function whose body is a statement, a println and *)
(* a last expression, and a call of it                                      *)
ReadBlock ==
    \E kind \in DOMAIN BlockFirst :
        /\ status = "idle"
        /\ src' = <<"f", "n", " ", "f", "(", ")", "{">> \o BlockFirst[kind] \o <<" ", "p", "r", "i", "n", "t", "l", "n", "(", "7", ")", " ", "9", "}", " ", "f", "(", ")">>
        /\ input' = [family |-> "block", kind |-> kind]
        /\ ReadFile

(* the statement of the body of f that holds `return 1`, by kind *)
ReturnPlaces ==
    [top |-> <<"r", "e", "t", "u", "r", "n", " ", "1">>,
     nested |-> <<"i", "f", " ", "t", "r", "u", "e", " ", "{", "i", "f", " ", "t", "r", "u", "e", " ", "{", "r", "e", "t", "u", "r", "n", " ", "1", "}", "}">>,
     else |-> <<"i", "f", " ", "f", "a", "l", "s", "e", " ", "{", "2", "}", " ", "e", "l", "s", "e", " ", "{", "r", "e", "t", "u", "r", "n", " ", "1", "}">>,
     loop |-> <<"f", "o", "r", " ", "i", " ", "i", "n", " ", "1", ".", ".", "2", " ", "{", "p", "r", "i", "n", "t", "l", "n", "(", "i", ")", " ", "r", "e", "t", "u", "r", "n", " ", "1", "}">>,
     loopif |-> <<"f", "o", "r", " ", "i", " ", "i", "n", " ", "1", ".", ".", "2", " ", "{", "p", "r", "i", "n", "t", "l", "n", "(", "i", ")", " ", "i", "f", " ", "i", "=", "=", "1", " ", "{", "r", "e", "t", "u", "r", "n", " ", "1", "}", "}">>]

(* os.ReadFile in main: a function whose body returns 1 from some place,    *)
(* then prints and ends with 9, and a call of it                            *)
ReadReturn ==
    \E kind \in DOMAIN ReturnPlaces :
        /\ status = "idle"
        /\ src' = <<"f", "n", " ", "f", "(", ")", "{">> \o ReturnPlaces[kind] \o <<" ", "p", "r", "i", "n", "t", "l", "n", "(", "7", ")", " ", "9", "}", " ", "f", "(", ")">>
        /\ input' = [family |-> "return", kind |-> kind]
        /\ ReadFile

(* os.ReadFile in main: mk evaluates the literal of g once per call, the    *)
(* two function values are kept in an array and one of them is called       *)
ReadLiteral ==
    \E v1 \in 1..2, v2 \in 1..2, which \in 0..1 :
        /\ status = "idle"
        /\ v1 # v2
        /\ src' = <<"f", "n", " ", "m", "k", "(", "a", ")", "{", "f", "n", " ", "g", "(", ")", "{", "a", "}", "}", " ", "s", "=", "[", "m", "k", "(">> \o Numeral(v1) \o <<")", ",", "m", "k", "(">>
                  \o Numeral(v2) \o <<")", "]", " ", "s", "[">> \o Numeral(which) \o <<"]", "(", ")">>
        /\ input' = [family |-> "literal", v1 |-> v1, v2 |-> v2, which |-> which]
        /\ ReadFile

(* the text of a boolean literal *)
BoolText(b) == IF b THEN <<"t", "r", "u", "e">> ELSE <<"f", "a", "l", "s", "e">>

(* os.ReadFile in main: two boolean literals joined by `and` or `or` *)
ReadBool ==
    \E x \in BOOLEAN, y \in BOOLEAN, op \in {<<"a", "n", "d">>, <<"o", "r">>} :
        /\ status = "idle"
        /\ src' = BoolText(x) \o <<" ">> \o op \o <<" ">> \o BoolText(y)
        /\ input' = [family |-> "bool", x |-> x, y |-> y, op |-> op]
        /\ ReadFile

(* expressions whose operands are outside the coercion matrix, by kind *)
Unsupported ==
    [strminus |-> <<"\"", "a", "\"", "-", "\"", "b", "\"">>, strless |-> <<"\"", "a", "\"", "<", "1">>, numless |-> <<"1", "<", "\"", "a", "\"">>,
     boolplus |-> <<"t", "r", "u", "e", "+", "f", "a", "l", "s", "e">>, boolless |-> <<"t", "r", "u", "e", "<", "f", "a", "l", "s", "e">>,
     notint |-> <<"!", "5">>, notfloat |-> <<"!", "1", ".", "5">>, negbool |-> <<"-", "t", "r", "u", "e">>]

(* os.ReadFile in main: one such expression and a println after it *)
ReadUnsupported ==
    \E kind \in DOMAIN Unsupported :
        /\ status = "idle"
        /\ src' = Unsupported[kind] \o <<" ", "p", "r", "i", "n", "t", "l", "n", "(", "7", ")">>
        /\ input' = [family |-> "unsupported", kind |-> kind]
        /\ ReadFile

(* os.ReadFile in main: a loop over an array made by a call, at the top     *)
(* level; a loop with key and value inside a function; a loop over a string *)
ReadFor ==
    \E a \in 1..2, b \in 1..2, kind \in {"global", "function", "string"} :
        /\ status = "idle"
        /\ src' = CASE kind = "global" ->
                         <<"i", "=", "9", " ", "c", "=", "0", " ", "f", "n", " ", "t", "(", ")", "{", "p", "r", "i", "n", "t", "l", "n", "(", "0", ")", " ", "x", "=", "[">> \o Numeral(a) \o <<",">> \o Numeral(b)
                         \o <<"]", "}", " ", "f", "o", "r", " ", "i", " ", "i", "n", " ", "t", "(", ")", " ", "{", "p", "r", "i", "n", "t", "l", "n", "(", "i", ")", " ", "c", "=", "c", "*", "1", "0", "+", "i", " ", "l", "=", "i", "}">>
                    [] kind = "function" ->
                         <<"f", "n", " ", "f", "(", ")", "{", "c", "=", "0", " ", "f", "o", "r", " ", "k", ",", "v", " ", "i", "n", " ", "[">> \o Numeral(a) \o <<",">> \o Numeral(b)
                         \o <<"]", " ", "{", "c", "=", "c", "*", "1", "0", "+", "v", "+", "k", "}", " ", "c", "*", "1", "0", "0", "+", "k", "*", "1", "0", "+", "v", "}", " ", "f", "(", ")">>
                    [] kind = "string" ->
                         <<"c", "=", "\"", "\"", " ", "f", "o", "r", " ", "c", "h", " ", "i", "n", " ", "\"", "x", "y", "\"", " ", "{", "c", "=", "c", "+", "c", "h", "}", " ", "c", "+", "c", "h">>
        /\ input' = [family |-> "for", kind |-> kind, a |-> a, b |-> b]
        /\ ReadFile

(* map literals, by kind: distinct keys; two key expressions with the same  *)
(* value; value expressions that print; key expressions that assign         *)
MapScripts ==
    [plain |-> <<"m", "=", "{", "1", ":", "5", ",", "2", ":", "6", "}", " ", "m", "[", "1", "]", "+", "m", "[", "2", "]">>,
     same |-> <<"m", "=", "{", "1", ":", "5", ",", "0", "+", "1", ":", "6", "}", " ", "m", "[", "1", "]">>,
     effects |-> <<"f", "n", " ", "f", "(", ")", "{", "p", "r", "i", "n", "t", "l", "n", "(", "1", ")", " ", "5", "}", " ", "f", "n", " ", "g", "(", ")", "{", "p", "r", "i", "n", "t", "l", "n", "(", "2", ")", " ", "6", "}", " ", "m", "=", "{", "1", ":", "f", "(", ")", ",", "2", ":", "g", "(", ")", "}", " ", "m", "[", "1", "]">>,
     keys |-> <<"x", "=", "0", " ", "m", "=", "{", "x", "=", "1", ":", "5", ",", "x", "=", "2", ":", "6", "}", " ", "x">>]

(* os.ReadFile in main: a script with a map literal; the Go run time picks  *)
(* the order in which `range n.Pairs` visits the pairs                      *)
ReadMap ==
    \E kind \in DOMAIN MapScripts, order \in {"fwd", "rev"} :
        /\ status = "idle"
        /\ src' = MapScripts[kind]
        /\ input' = [family |-> "map", kind |-> kind]
        /\ store' = [store EXCEPT !.oracle = order]
        /\ status' = "read"
        /\ UNCHANGED <<scanner, lexemes, parser, pos, astNodes, spins, evaluated,
                       rdr, impl, pre, result>>

NextEval ==
    \/ ReadRange
    \/ ReadSwap
    \/ ReadIndexAssign
    \/ ReadClosure
    \/ ReadMixed
    \/ ReadConcat
    \/ ReadUndefined
    \/ ReadAssign
    \/ ReadCall
    \/ ReadNamespaces
    \/ ReadBlock
    \/ ReadReturn
    \/ ReadLiteral
    \/ ReadBool
    \/ ReadUnsupported
    \/ ReadFor
    \/ ReadMap
    \/ Scan
    \/ ParseNode
    \/ ParseEnd
    \/ EvalNode
    \/ Scope_EvalNode
    \/ EvalEnd

SpecEval == InitEval /\ [][NextEval]_vars

-----------------------------------------------------------------------------
(* reading an expression in the global scope of a store *)
ReadValue(n, st) == IF impl = "A" THEN Evaluate(n, 1, st).v ELSE Eval(n, 1, st).v

RangeExpected(a, b, s) ==
    IF a <= b
    THEN [k \in 1..((b - a) \div s + 1) |-> IntV(a + (k - 1) * s)]
    ELSE [k \in 1..((a - b) \div s + 1) |-> IntV(a - (k - 1) * s)]

(* C3: for integers a, b and a step s >= 1 (1 when none is written) the     *)
(* range a..b[:s] is exactly a, a+s, a+2s, ... up to b when a <= b and      *)
(* a, a-s, a-2s, ... down to b when a > b; when a > b a written step -s     *)
(* gives the same as s.  Both evaluators.                                   *)
RangeIsInclusive ==
    (/\ input.family = "range"
     /\ Ended
     /\ (input.s >= 1 \/ (input.a > input.b /\ input.s <= -1))) =>
        /\ status = "done"
        /\ result.v.t = "array"
        /\ store.heap[result.v.v].elems = RangeExpected(input.a, input.b, Abs(input.s))

(* 3..-3:-2 has been evaluated by the Scope evaluator to [3, 1, -1, -3] *)
RangeWitness ==
    /\ input.family = "range"
    /\ impl = "B"
    /\ status = "done"
    /\ input.a = 3 /\ input.b = -3 /\ input.s = -2
    /\ result.v.t = "array"
    /\ store.heap[result.v.v].elems = <<IntV(3), IntV(1), IntV(-1), IntV(-3)>>

(* C4: after swap(A, B), reading A yields the value B had immediately       *)
(* before the swap and reading B yields the value A had, whatever the two   *)
(* targets are, index expressions that read the other target included.      *)
SwapExchanges ==
    (input.family = "swap" /\ evaluated = 6 /\ status \in {"run", "done"}) =>
        /\ VEq(ReadValue(astNodes[6].A, store), ReadValue(astNodes[6].B, pre))
        /\ VEq(ReadValue(astNodes[6].B, store), ReadValue(astNodes[6].A, pre))

(* C5: after a[i] = v, with a bound in the scope executing the assignment   *)
(* or in an ancestor of it, a read of a[i] from the scope that binds a      *)
(* yields v, and the array keeps its length and its other elements.         *)
IndexAssignInPlace ==
    (input.family = "indexassign" /\ Ended) =>
        /\ status = "done"
        /\ VEq(result.v, IntV(input.v))
        /\ LET a == GetVariable(store, 1, <<"a">>)
           IN  /\ a.ok
               /\ a.v.t = "array"
               /\ store.heap[a.v.v].elems =
                     [<<IntV(input.p), IntV(input.q)>> EXCEPT ![input.i + 1] = IntV(input.v)]

(* a[1] = 9 done two calls below the top level is read back as 9 at top level *)
IndexAssignWitness ==
    /\ input.family = "indexassign"
    /\ input.via = "nested"
    /\ impl = "A"
    /\ status = "done"
    /\ input.i = 1 /\ input.v = 9
    /\ VEq(result.v, IntV(9))

FloatOperation(x, op, y) ==
    CASE op = opAdd -> [num |-> x.num * y.den + y.num * x.den, den |-> x.den * y.den]
      [] op = opSub -> [num |-> x.num * y.den - y.num * x.den, den |-> x.den * y.den]
      [] op = opMul -> [num |-> x.num * y.num, den |-> x.den * y.den]
      [] op = opDiv -> [num |-> x.num * y.den, den |-> x.den * y.num]
      [] op = opLT -> x.num * y.den < y.num * x.den
      [] op = opLE -> x.num * y.den <= y.num * x.den
      [] op = opGT -> x.num * y.den > y.num * x.den
      [] op = opGE -> x.num * y.den >= y.num * x.den
      [] op = opEQ -> x.num * y.den = y.num * x.den
      [] op = opNE -> x.num * y.den # y.num * x.den

(* the value v is the outcome e of FloatOperation *)
IsFloatOutcome(v, op, e) ==
    IF op \in {opAdd, opSub, opMul, opDiv}
    THEN /\ v.t = "float"
         /\ (v.v.den = 0) = (e.den = 0)
         /\ IF e.den = 0 THEN Sgn(v.v.num) = Sgn(e.num)
            ELSE v.v.num * e.den = e.num * v.v.den
    ELSE v.t = "bool" /\ v.v = e

(* C7: a binary operator of + - * / < <= > >= == != on an int and a float,  *)
(* in either order, gives the float operation on (left, right) as written,  *)
(* the int converted to float.                                              *)
MixedPromotesInOrder ==
    (input.family = "mixed" /\ Ended) =>
        /\ status = "done"
        /\ LET i == [num |-> input.i, den |-> 1]
               f == [num |-> input.f.num, den |-> input.f.den]
           IN  IsFloatOutcome(result.v, input.op,
                              IF input.floatLeft THEN FloatOperation(f, input.op, i)
                              ELSE FloatOperation(i, input.op, f))

(* C8: + with a string on the left and a string, an int or a float on the   *)
(* right is the left string followed by the text of the right operand (the  *)
(* canonical decimal text of a number); the variables holding the operands  *)
(* and the rest of the scope are as before.                                 *)
ConcatAppendsText ==
    (input.family = "concat" /\ Ended) =>
        /\ status = "done"
        /\ VEq(result.v, StrV(input.l \o input.r.text))
        /\ store.scopes = pre.scopes
        /\ store.heap = pre.heap

(* "x=" + 1.5 has been evaluated to "x=1.5" *)
ConcatWitness ==
    /\ input.family = "concat"
    /\ status = "done"
    /\ input.l = <<"x", "=">>
    /\ input.r.written = <<"1", ".", "5">>
    /\ VEq(result.v, StrV(<<"x", "=", "1", ".", "5">>))

(* C10: evaluating a reference to an identifier bound in no scope aborts    *)
(* the run: no value comes of it and no later statement is executed.        *)
UndefinedAborts ==
    (input.family = "undefined" /\ evaluated >= 1) =>
        /\ evaluated = 1
        /\ status \in {"fatal", "panic"}

(* C11: an assignment x = v executed in a call scope where x is not bound   *)
(* locally but is bound in an ancestor scope updates the ancestor's         *)
(* binding: after the call a read of x in the ancestor scope gives v.       *)
AssignUpdatesAncestor ==
    (input.family = "assign" /\ Ended) =>
        /\ status = "done"
        /\ VEq(result.v, IntV(input.v2))

(* the variables bound in scope env of a store, with their values *)
Bindings(st, env) == st.scopes[env].variables

(* C12: a call evaluates its arguments in the caller's scope and the body   *)
(* in a new scope whose parent is the function's defining scope: the free   *)
(* variable y of f is the defining scope's y though the caller g has its    *)
(* own y, the parameter p is the caller's q, and after the call neither     *)
(* the defining scope nor the caller's scope has a new or changed p.        *)
CallUsesDefiningScope ==
    (input.family = "call" /\ Ended) =>
        /\ status = "done"
        /\ VEq(result.v, IntV(input.v1 * 10 + input.a))
        /\ DOMAIN Bindings(store, 1) = {<<"y">>, <<"p">>}
        /\ VEq(Bindings(store, 1)[<<"y">>], IntV(input.v1))
        /\ VEq(Bindings(store, 1)[<<"p">>], IntV(7))
        /\ store.scopes[2].parent = 1
        /\ DOMAIN Bindings(store, 2) = {<<"y">>, <<"q">>}
        /\ VEq(Bindings(store, 2)[<<"y">>], IntV(input.v2))
        /\ VEq(Bindings(store, 2)[<<"q">>], IntV(input.a))
        /\ store.scopes[3].parent = 1
        /\ DOMAIN Bindings(store, 3) = {<<"p">>}

(* y=1, g's y=2, q=4: g() has given 1*10+4 and the global p is still 7 *)
CallWitness ==
    /\ input.family = "call"
    /\ status = "done"
    /\ input.v1 = 1 /\ input.v2 = 2 /\ input.a = 4
    /\ VEq(result.v, IntV(14))
    /\ VEq(Bindings(store, 1)[<<"p">>], IntV(7))
    /\ Len(store.scopes) = 3

(* C13: after fn x(){5} and x = v in the same scope, in either order, the   *)
(* call x() invokes the function and the reference x gives v, in both       *)
(* evaluators.                                                              *)
NamespacesAreIndependent ==
    (input.family = "namespaces" /\ Ended) =>
        /\ status = "done"
        /\ VEq(GetVariable(store, 1, <<"r">>).v, IntV(5))
        /\ VEq(result.v, IntV(input.v))

-----------------------------------------------------------------------------
(* The scanner goroutine step by step: one iteration of scanTokens' loop    *)
(* per step, on every text of up to MaxSrcLen runes over ScannerAlphabet.   *)

MaxSrcLen == 3

(* make(chan Lexeme, 256), lexer.go:120 *)
LexemeBuffer == 256

ScannerAlphabet == {"n", "1", ".", "\"", "/", "*", " ", "\\", "="}

ScannerSources == UNION {[1..n -> ScannerAlphabet] : n \in 0..MaxSrcLen}

InitScanner == InitPipeline

(* os.ReadFile in main: any short text *)
ReadSource ==
    /\ status = "idle"
    /\ \E text \in ScannerSources : src' = text
    /\ input' = [family |-> "scanner"]
    /\ ReadFile

MaxNumLen == 5

NumberAlphabet == {"1", "5", ".", " "}

NumberSources == UNION {[1..n -> NumberAlphabet] : n \in 1..MaxNumLen}

(* os.ReadFile in main: a text of digits, dots and blanks *)
ReadNumber ==
    /\ status = "idle"
    /\ \E text \in NumberSources : src' = text
    /\ input' = [family |-> "number"]
    /\ ReadFile

(* main: CreateScanner starts scanTokens on the replaced text, CreateParser *)
(* starts processParsing                                                   *)
StartPipeline ==
    /\ status = "read"
    /\ status' = "run"
    /\ scanner' = "run"
    /\ rdr' = 1
    /\ parser' = "run"
    /\ pos' = 1
    /\ UNCHANGED <<src, lexemes, astNodes, spins, evaluated, impl, input,
                   store, pre, result>>

(* the lexemes the analyzer has taken from the channel *)
Taken == IF pos + 1 < Len(lexemes) THEN pos + 1 ELSE Len(lexemes)

(* one iteration of scanTokens' loop that reads a rune: the tokens of the   *)
(* rune's case are sent, or log.Fatal ends the process                      *)
ScanToken ==
    /\ status = "run"
    /\ scanner = "run"
    /\ rdr <= Len(Replacer(src, 1))
    /\ LET x == scanRune(Replacer(src, 1), rdr)
       IN  /\ Len(lexemes) + Len(x.sent) - Taken <= LexemeBuffer
           /\ lexemes' = lexemes \o x.sent
           /\ rdr' = x.next
           /\ scanner' = IF x.fatal THEN "fatal" ELSE "run"
           /\ status' = IF x.fatal THEN "fatal" ELSE "run"
    /\ UNCHANGED <<src, parser, pos, astNodes, spins, evaluated, impl, input,
                   store, pre, result>>

(* END_OF_FILE is sent and the channel is left open *)
ScanEnd_open ==
    /\ status = "run"
    /\ scanner = "run"
    /\ rdr > Len(Replacer(src, 1))
    /\ lexemes' = Append(lexemes, Lexeme(END_OF_FILE, <<>>))
    /\ UNCHANGED <<src, scanner, rdr, parser, pos, astNodes, spins, evaluated,
                   impl, input, store, pre, result, status>>

(* the iteration of scanTokens' loop that reads io.EOF, lexer.go:128-133 *)
ScanEnd ==
    /\ status = "run"
    /\ scanner = "run"
    /\ rdr > Len(Replacer(src, 1))
    /\ Len(lexemes) + 1 - Taken <= LexemeBuffer
    /\ lexemes' = Append(lexemes, Lexeme(END_OF_FILE, <<>>))
    /\ scanner' = "closed"
    /\ UNCHANGED <<src, rdr, parser, pos, astNodes, spins, evaluated,
                   impl, input, store, pre, result, status>>

NextScanner ==
    \/ ReadSource
    \/ ReadNumber
    \/ StartPipeline
    \/ ScanToken
    \/ ScanEnd

SpecScanner == InitScanner /\ [][NextScanner]_vars

(* the texts of a sequence of lexemes, one after the other *)
RECURSIVE Texts(_)
Texts(ls) == IF ls = <<>> THEN <<>> ELSE Head(ls).Text \o Texts(Tail(ls))

(* the indexes of the END_OF_FILE lexemes of the channel *)
EndMarks == {i \in 1..Len(lexemes) : lexemes[i].Kind = END_OF_FILE}

(* what a step has added to the channel *)
Sent == SubSeq(lexemes', Len(lexemes) + 1, Len(lexemes'))

(* C14: while scanTokens runs without a fatal error, the lexemes it sends   *)
(* are those of successive pieces of the text, in the order of the text     *)
(* (what was sent stays, and the texts of the lexemes a step sends are the  *)
(* runes it read, but for a string literal, which starts at its quote); no  *)
(* END_OF_FILE is on the channel before it is closed, and once it is        *)
(* closed END_OF_FILE is its last lexeme and its only one, and nothing is   *)
(* sent any more.                                                           *)
ScannerEndsWithOneEOF ==
    /\ [](/\ scanner \in {"run", "fatal"} => EndMarks = {}
          /\ scanner = "closed" => EndMarks = {Len(lexemes)})
    /\ [][/\ scanner = "closed" => (lexemes' = lexemes /\ scanner' = "closed")
          /\ Len(lexemes') >= Len(lexemes)
          /\ SubSeq(lexemes', 1, Len(lexemes)) = lexemes
          /\ (scanner = "run" /\ scanner' = "run" /\ Sent # <<>>) =>
                LET s == Replacer(src, 1)
                IN  /\ rdr' > rdr
                    /\ \/ Head(Sent).Kind = STRING_T /\ s[rdr] = "\"" /\ Len(Sent) = 1
                       \/ Texts(Sent) = SubSeq(s, rdr, rdr' - 1)]_vars

(* 1.. has been scanned: an integer, the range symbol, END_OF_FILE, closed *)
ScannerWitness ==
    /\ input.family = "scanner"
    /\ src = <<"1", ".", ".">>
    /\ scanner = "closed"
    /\ Len(lexemes) = 3
    /\ lexemes[1].Kind = INTEGER_T
    /\ lexemes[2].Kind = DOTDOT_SYM
    /\ lexemes[3].Kind = END_OF_FILE

-----------------------------------------------------------------------------
(* The three goroutines of main, interleaved: scanTokens one loop           *)
(* iteration per step, processParsing one node per step, EvaluateNodes one  *)
(* node per step.                                                           *)

(* the statements of the scripts, and what may follow them *)
Statements == {<<"p", "r", "i", "n", "t", "l", "n", "(", "1", ")">>, <<"x", "=", "2">>, <<"p", "r", "i", "n", "t", "l", "n", "(", "x", ")">>, <<"[", "1", "]", "[", "5", "]">>}

Tails == {<<>>, <<" ", "/", "*">>, <<" ", "/", "*", " ", "c", " ", "*", "/", " ", "p", "r", "i", "n", "t", "l", "n", "(", "3", ")">>}

MaxStatements == 3

RECURSIVE Lines(_)
Lines(ss) == IF ss = <<>> THEN <<>> ELSE Head(ss) \o <<" ">> \o Lines(Tail(ss))

Scripts == {Lines(ss) \o t : ss \in UNION {[1..n -> Statements] : n \in 0..MaxStatements},
                             t \in Tails}

(* os.ReadFile in main: some statements, then nothing, a block comment that *)
(* is not closed, or a closed one and a last statement                      *)
ReadScript ==
    /\ status = "idle"
    /\ \E text \in Scripts : src' = text
    /\ input' = [family |-> "script"]
    /\ ReadFile

(* a receive from the lexeme channel can deliver lexeme i *)
Received(i) == i <= Len(lexemes) \/ scanner = "closed"

(* one iteration of processParsing's loop: the node is parsed from the      *)
(* lexemes received (the parse holds the node's lexemes and the one after   *)
(* them) and sent once the evaluator has taken the node before              *)
SendNode ==
    /\ status = "run"
    /\ parser = "run"
    /\ evaluated = Len(astNodes)
    /\ Received(pos)
    /\ LET T == CreateScanner(src).sent
       IN  /\ curLex(T, pos).Kind # END_OF_FILE
           /\ LET r == parseExpr(T, pos, LOWEST_PREC)
              IN  /\ r.st # "spin"
                  /\ Received(r.pos + 1)
                  /\ astNodes' = IF IsNilNode(r.n) THEN astNodes ELSE Append(astNodes, r.n)
                  /\ pos' = r.pos + 1
    /\ UNCHANGED <<src, scanner, lexemes, parser, spins, evaluated, rdr, impl,
                   input, store, pre, result, status>>

(* processParsing receives END_OF_FILE, leaves its loop, closes astNodes *)
CloseNodes ==
    /\ status = "run"
    /\ parser = "run"
    /\ evaluated = Len(astNodes)
    /\ pos <= Len(lexemes)
    /\ lexemes[pos].Kind = END_OF_FILE
    /\ parser' = "closed"
    /\ UNCHANGED <<src, scanner, lexemes, pos, astNodes, spins, evaluated,
                   rdr, impl, input, store, pre, result, status>>

NextGoroutines ==
    \/ ReadScript
    \/ StartPipeline
    \/ ScanToken
    \/ ScanEnd
    \/ SendNode
    \/ CloseNodes
    \/ EvalNode
    \/ EvalEnd

SpecGoroutines == InitPipeline /\ [][NextGoroutines]_vars

(* The same program run by one thread that pulls: the evaluator asks for a  *)
(* node, the parse asks for the lexemes it needs, the scan runs as far as   *)
(* the lexeme asked for. l is what the scan of the whole text sends, p the  *)
(* current lexeme, st the store.                                            *)
RECURSIVE PullNodes(_, _, _)
PullNodes(l, p, st) ==
    IF p > Len(l.sent)
    THEN [st |-> st, status |-> IF l.closed THEN "done" ELSE "fatal"]
    ELSE IF l.sent[p].Kind = END_OF_FILE
    THEN [st |-> st, status |-> "done"]
    ELSE LET r == parseExpr(l.sent, p, LOWEST_PREC)
         IN  IF r.pos + 1 > Len(l.sent) /\ ~l.closed
             THEN [st |-> st, status |-> "fatal"]
             ELSE IF IsNilNode(r.n)
             THEN PullNodes(l, r.pos + 1, st)
             ELSE LET e == Evaluate(r.n, 1, st)
                  IN  IF e.ok = "ok"
                      THEN PullNodes(l, r.pos + 1, e.st)
                      ELSE [st |-> e.st, status |-> e.ok]

PullBased == PullNodes(CreateScanner(src), 1, NewStore(<<>>, <<>>))

(* C15: when the program has ended, what it has printed, the bindings it    *)
(* has made and the way it ended are those of the pull-based run of the     *)
(* same text, whatever the interleaving of the goroutines was.              *)
PipelineEqualsPullBased ==
    (input.family = "script" /\ Ended) =>
        /\ status = PullBased.status
        /\ store.out = PullBased.st.out
        /\ store.scopes = PullBased.st.scopes

(* the same for the texts that the scanner reads to their end *)
PipelineEqualsPullBasedWhenScanned ==
    (input.family = "script" /\ Ended /\ CreateScanner(src).closed) =>
        /\ status = PullBased.status
        /\ store.out = PullBased.st.out
        /\ store.scopes = PullBased.st.scopes

-----------------------------------------------------------------------------
(* C16: the body of f runs its statements in order and stops early only at  *)
(* an if or a return whose value is not nil, with that value: after          *)
(* `if true {1}` or `return 1` the call gives 1 and nothing is printed,     *)
(* after `if false {1} else {2}` it gives 2, and after `if false {1}`       *)
(* (value nil) or `x=1` the println runs and the call gives 9.              *)
BlockStopsAtNonNil ==
    (input.family = "block" /\ Ended) =>
        /\ status = "done"
        /\ input.kind \in {"iftrue", "ret"} =>
              VEq(result.v, IntV(1)) /\ store.out = <<>>
        /\ input.kind = "ifelse" =>
              VEq(result.v, IntV(2)) /\ store.out = <<>>
        /\ input.kind \in {"iffalse", "plain"} =>
              VEq(result.v, IntV(9)) /\ Len(store.out) = 1


-----------------------------------------------------------------------------
(* C17: `return 1` in the body of f, at the top, inside nested ifs, in an   *)
(* else branch or in the body of a for loop, makes the call f() give 1, and *)
(* nothing of the body runs after it: println(7) does not run, and a loop   *)
(* over 1..2 has printed only its first element.                            *)
ReturnLeavesTheCall ==
    (input.family = "return" /\ Ended) =>
        /\ status = "done"
        /\ VEq(result.v, IntV(1))
        /\ Len(store.out) = (IF input.kind \in {"loop", "loopif"} THEN 1 ELSE 0)


-----------------------------------------------------------------------------
(* C18: the function value made by the first call of mk stays bound to the  *)
(* scope of that call after the second call of mk has evaluated the same    *)
(* literal again: called, the first value gives the first call's argument   *)
(* and the second value the second call's.                                  *)
LiteralBindingIsFixed ==
    (input.family = "literal" /\ Ended) =>
        /\ status = "done"
        /\ VEq(result.v, IntV(IF input.which = 0 THEN input.v1 ELSE input.v2))

-----------------------------------------------------------------------------
(* C19: the evaluation of a..b or a..b:step ends with a sequence, whatever  *)
(* the integers a, b and step are: no range is a loop that never ends.      *)
RangeTerminates ==
    (input.family = "range" /\ Ended) =>
        /\ status = "done"
        /\ result.v.t = "array"

-----------------------------------------------------------------------------
(* C20: `x and y` and `x or y` on boolean literals are parsed into one      *)
(* infix node with x on the left and y on the right, and the program's      *)
(* value is the conjunction or the disjunction of x and y.                  *)
BoolInfixIsParsedAndEvaluated ==
    (input.family = "bool" /\ Ended) =>
        /\ status = "done"
        /\ Len(astNodes) = 1
        /\ astNodes[1].k = "InfixOp"
        /\ astNodes[1].Left.k = "BooleanLiteral"
        /\ astNodes[1].Left.Value = input.x
        /\ astNodes[1].Right.k = "BooleanLiteral"
        /\ astNodes[1].Right.Value = input.y
        /\ VEq(result.v, BoolV(IF input.op = <<"a", "n", "d">> THEN input.x /\ input.y
                               ELSE input.x \/ input.y))

-----------------------------------------------------------------------------
(* the three lexical errors, on texts where nothing else hides them: one    *)
(* quote and no comment mark; a `/*` with no quote and no `*` after it; a   *)
(* backslash (no symbol, no letter, no digit, no blank) that is not the     *)
(* start of \n, in a text with no quote and no comment mark                 *)
Has(s, c) == \E i \in 1..Len(s) : s[i] = c

OpenString(s) ==
    /\ Cardinality({i \in 1..Len(s) : s[i] = "\""}) = 1
    /\ ~Has(s, "/")

OpenComment(s) ==
    /\ ~Has(s, "\"")
    /\ \E i \in 1..Len(s) - 1 :
          /\ s[i] = "/" /\ s[i+1] = "*"
          /\ \A j \in 1..i - 1 : s[j] # "/"
          /\ \A j \in i + 2..Len(s) : s[j] # "*"

UnknownRune(s) ==
    /\ ~Has(s, "\"")
    /\ ~Has(s, "/")
    /\ \E i \in 1..Len(s) : s[i] = "\\" /\ (i = Len(s) \/ s[i+1] # "n")

(* the scanner has read the whole text or has died *)
ScannerOver == scanner \in {"closed", "fatal"}

(* C21: a text with a string literal that is not closed, a block comment    *)
(* that is not closed or a rune that is no symbol ends the run in the       *)
(* scanner: the channel is never closed, END_OF_FILE is never sent, no      *)
(* string token is sent for the open literal, and the scanner ends fatal.   *)
LexicalErrorsAbort ==
    (input.family = "scanner" /\ (OpenString(src) \/ OpenComment(src) \/ UnknownRune(src))) =>
        /\ scanner # "closed"
        /\ EndMarks = {}
        /\ ScannerOver => scanner = "fatal"
        /\ OpenString(src) => \A i \in 1..Len(lexemes) : lexemes[i].Kind # STRING_T

-----------------------------------------------------------------------------
(* the number of dots of a text, and whether it is digits only *)
Dots(t) == Cardinality({i \in 1..Len(t) : t[i] = "."})

DigitsOnly(t) == Len(t) >= 1 /\ \A i \in 1..Len(t) : IsDigit(t[i])

(* C22: every INT token sent is digits only and every FLOAT token has       *)
(* exactly one dot; and a step that reads a digit run followed by `..`      *)
(* sends the INT of the digits and then the `..` token, not a FLOAT.        *)
NumbersAreWellFormed ==
    /\ [](\A i \in 1..Len(lexemes) :
            /\ lexemes[i].Kind = INTEGER_T => DigitsOnly(lexemes[i].Text)
            /\ lexemes[i].Kind = FLOAT_T => Dots(lexemes[i].Text) = 1)
    /\ [][LET s == Replacer(src, 1)
          IN  \A k \in rdr..Len(s) - 2 :
                (/\ scanner = "run" /\ rdr' # rdr
                 /\ DigitsOnly(SubSeq(s, rdr, k))
                 /\ s[k+1] = "." /\ s[k+2] = ".") =>
                    /\ Sent = <<Lexeme(INTEGER_T, SubSeq(s, rdr, k)),
                                Lexeme(DOTDOT_SYM, <<".", ".">>)>>
                    /\ rdr' = k + 3]_vars

-----------------------------------------------------------------------------
(* C23: an operator applied to operands outside the coercion matrix (a      *)
(* string with an operator other than +, a comparison of a string and a     *)
(* number, arithmetic or an order on two booleans, `!` on a number, `-` on  *)
(* a boolean) ends the run with a runtime error, and the println after it   *)
(* does not run.                                                            *)
UnsupportedOperandsAbort ==
    (input.family = "unsupported" /\ Ended) =>
        /\ status \in {"panic", "fatal"}
        /\ store.out = <<>>

-----------------------------------------------------------------------------
(* what println(i) adds to the output *)
Printed(i) == [nl |-> TRUE, args |-> <<IntV(i)>>]

(* C24: a for loop evaluates its target once (t() prints 0 once), runs its  *)
(* body once per element in element order, in the scope that holds the      *)
(* loop and in no new scope: what the body assigns is read by the next      *)
(* iteration and after the loop, and the key and value variables are bound  *)
(* in that scope, in place of a binding of the same name.                   *)
ForRunsInItsScope ==
    (input.family = "for" /\ Ended) =>
        /\ status = "done"
        /\ input.kind = "global" =>
              /\ store.out = <<Printed(0), Printed(input.a), Printed(input.b)>>
              /\ VEq(GetVariable(store, 1, <<"c">>).v, IntV(input.a * 10 + input.b))
              /\ VEq(GetVariable(store, 1, <<"l">>).v, IntV(input.b))
              /\ VEq(GetVariable(store, 1, <<"i">>).v, IntV(input.b))
              /\ Len(store.scopes) = 2
        /\ input.kind = "function" =>
              /\ VEq(result.v, IntV((input.a * 10 + input.b + 1) * 100 + 10 + input.b))
              /\ DOMAIN Bindings(store, 1) = {}
              /\ DOMAIN Bindings(store, 2) = {<<"c">>, <<"k">>, <<"v">>}
              /\ Len(store.scopes) = 2
        /\ input.kind = "string" =>
              /\ result.v.t = "string"
              /\ result.v.v = <<"x", "y", "y">>
              /\ Len(store.scopes) = 1

(* the loop inside f has run in both evaluators' function scope *)
ForWitness ==
    /\ input.family = "for"
    /\ input.kind = "function"
    /\ input.a = 2
    /\ input.b = 1
    /\ status = "done"
    /\ VEq(result.v, IntV(2211))
    /\ Len(store.scopes) = 2

-----------------------------------------------------------------------------
(* the run of the nodes from i on, one after the other, by evaluator which  *)
RECURSIVE RunNodes(_, _, _, _)
RunNodes(which, nodes, i, r) ==
    IF i > Len(nodes) \/ r.ok # "ok" THEN r
    ELSE RunNodes(which, nodes, i + 1,
                  IF which = "A" THEN Evaluate(nodes[i], 1, r.st) ELSE Eval(nodes[i], 1, r.st))

(* the same script run from the same empty scope, its pairs visited in the  *)
(* order they are written                                                   *)
InWrittenOrder == RunNodes(impl, astNodes, 1, Ok(Nil, NewStore(<<>>, <<>>)))

(* the entries of the map bound to m *)
EntriesOf(st) ==
    LET es == st.heap[GetVariable(st, 1, <<"m">>).v.v].entries
    IN  {es[i] : i \in 1..Len(es)}

(* C25: a run of a script with a map literal ends with the same value, the  *)
(* same output, the same bindings and an equal map as the run of the same   *)
(* script from the same scope that visits the pairs in the order they are   *)
(* written: the order of the visit does not show.                           *)
MapLiteralIsOrderFree ==
    (input.family = "map" /\ Ended) =>
        /\ status = "done"
        /\ InWrittenOrder.ok = "ok"
        /\ VEq(result.v, InWrittenOrder.v)
        /\ store.out = InWrittenOrder.st.out
        /\ store.scopes = InWrittenOrder.st.scopes
        /\ EntriesOf(store) = EntriesOf(InWrittenOrder.st)

-----------------------------------------------------------------------------
(* The pipeline on texts whose braces, brackets and parentheses are         *)
(* balanced, with the scheduling of the Go run time: a goroutine that can   *)
(* take a step takes it in the end.                                         *)

(* balanced statements, with empty blocks, argument lists, arrays and maps *)
BalancedStatements ==
    {<<"x", "=", "1">>, <<"a", "=", "[", "]">>, <<"a", "=", "[", "1", ",", "2", "]">>, <<"f", "n", " ", "f", "(", ")", "{", "}">>, <<"f", "n", " ", "f", "(", ")", "{", "}", " ", "f", "(", ")">>, <<"i", "f", " ", "t", "r", "u", "e", " ", "{", "}">>,
     <<"p", "r", "i", "n", "t", "l", "n", "(", ")">>, <<"f", "o", "r", " ", "i", " ", "i", "n", " ", "[", "]", " ", "{", "}">>, <<"m", "=", "{", "1", ":", "2", "}">>, <<"m", "=", "{", "}">>}

MaxBalanced == 2

BalancedSources ==
    {Lines(ss) : ss \in UNION {[1..n -> BalancedStatements] : n \in 1..MaxBalanced}}

(* os.ReadFile in main: one of the balanced texts *)
ReadBalanced ==
    /\ status = "idle"
    /\ \E ss \in UNION {[1..n -> BalancedStatements] : n \in 1..MaxBalanced} :
          /\ src' = Lines(ss)
          /\ input' = [family |-> "balanced",
                       emptyMap |-> \E i \in 1..Len(ss) : ss[i] = <<"m", "=", "{", "}">>]
    /\ ReadFile

(* one more iteration of a parse loop whose exit token never comes: advance *)
(* delivers END_OF_FILE from the closed channel again and again; the count *)
(* of iterations is kept below MaxSpins by starting over                   *)
ParseLoop ==
    /\ status = "run"
    /\ parser = "spin"
    /\ spins' = IF spins >= MaxSpins THEN 1 ELSE spins + 1
    /\ UNCHANGED <<src, scanner, lexemes, parser, pos, astNodes, evaluated,
                   rdr, impl, input, store, pre, result, status>>

NextBalanced ==
    \/ ReadBalanced
    \/ Scan
    \/ ParseNode
    \/ ParseEnd
    \/ ParseLoop
    \/ EvalNode
    \/ EvalEnd

(* what every step of the pipeline changes *)
progress == <<status, parser, pos, spins, evaluated>>

(* some goroutine can take a step: main reads and starts the pipeline, the  *)
(* evaluator has a node to take or finds the channel closed, the parser is  *)
(* in processParsing's loop or in a parse loop                              *)
Runnable ==
    \/ status \in {"idle", "read"}
    \/ /\ status = "run"
       /\ \/ evaluated < Len(astNodes)
          \/ parser \in {"run", "spin", "closed"}

(* a step of a runnable goroutine, by what it changes *)
GoroutineStep ==
    /\ Runnable
    /\ status' \in {"read", "run", "done", "panic", "fatal", "loop", "overflow"}
    /\ parser' \in {"idle", "run", "spin", "closed"}
    /\ pos' \in 0..(Len(lexemes) + 2)
    /\ spins' \in 0..MaxSpins
    /\ evaluated' \in 0..(Len(astNodes) + 1)

(* the Go scheduler lets every runnable goroutine run: as long as a step of *)
(* the pipeline is possible, one is taken in the end                        *)
SpecBalanced == InitPipeline /\ [][NextBalanced]_vars /\ WF_progress(GoroutineStep)

(* the steps of NextBalanced are the steps of runnable goroutines, and they *)
(* all change the progress                                                  *)
StepsAreGoroutineSteps == [][GoroutineStep /\ progress' # progress]_vars

(* the run has ended in a fatal error: a panic, log.Fatal, a stack overflow *)
FatalError == status \in {"panic", "fatal", "overflow"}

(* C26: once a balanced text has been read, the pipeline ends unless a      *)
(* fatal error ends the run: processParsing closes the node channel and     *)
(* EvaluateNodes returns.                                                   *)
BalancedSourceTerminates ==
    (status = "read" /\ input.family = "balanced")
        ~> ((parser = "closed" /\ status = "done") \/ FatalError)

(* the same for the balanced texts without an empty map literal *)
BalancedSourceTerminatesButEmptyMap ==
    (status = "read" /\ input.family = "balanced" /\ ~input.emptyMap)
        ~> (parser = "closed" /\ status = "done")

(* on a balanced text without an empty map literal the parser never loops *)
(* and nothing aborts the run                                             *)
OnlyEmptyMapSpins ==
    (input.family = "balanced" /\ ~input.emptyMap) =>
        /\ parser # "spin"
        /\ status \notin {"panic", "fatal", "loop", "overflow"}

=============================================================================
